---------------------------- MODULE Spec2Model ----------------------------
(***************************************************************************)
(* A model of the invoice extraction pipeline of src/src_propre:           *)
(*   bedrock_client.py   structured recovery, field normalisation          *)
(*   main.py             supplier corrector, orchestrator                  *)
(*   dynamodb_client.py  marshalling and the record store                  *)
(*                                                                         *)
(* Python values are tagged records [t |-> type, v |-> payload].  A Python *)
(* str is a sequence of tokens (lexical units: a brace, a fence of three   *)
(* backticks, a quote, a word, ...); a token carries its letter case in c, *)
(* so that lower() and upper() are computed and not assumed.  A Python     *)
(* dict is a sequence of <<key, value>> pairs in insertion order.          *)
(***************************************************************************)
EXTENDS Integers, Sequences, FiniteSets, TLC

VARIABLES
    text,        \* SpecRecover: the model's answer handed to structured recovery
    parts,       \* SpecRecover: how the answer was put together (fence, inside, outside)
    extracted,   \* SpecRecover: the outcome of _extract_json_from_response
    recovery,    \* SpecRecover: the outcome of recovery as a whole
    normIn,      \* SpecNorm: the record handed to _normalize_field_names
    normOut,     \* SpecNorm: its normalisation
    normOut2,    \* SpecNorm: the normalisation of normOut
    normPc,      \* SpecNorm: "new", "once", "twice" ("off" in the other specifications)
    fixData,     \* SpecFix: the record handed to _fix_supplier_if_needed
    fixFilename, \* SpecFix: the filename handed to it
    fixOut,      \* SpecFix: its outcome
    record,      \* SpecDynamo: the record handed to _convert_to_dynamo_format
    dynamoItem,  \* SpecDynamo: the item it gives
    restored,    \* SpecDynamo: the outcome of _convert_from_dynamo_format on the item
    modelId,     \* SpecPipeline: BEDROCK_MODEL_ID, the model the client is built for
    s3Event,     \* SpecPipeline: the S3 event handed to process_s3_event
    pc,          \* SpecPipeline: the step process_s3_event is at ("off" in the other specifications)
    docName,     \* SpecPipeline: filename, the name of the document
    localPath,   \* SpecPipeline: the path of its working copy
    tmpFiles,    \* SpecPipeline: the files of /tmp
    pdfText,     \* SpecPipeline: the text extracted from the working copy
    responseText,\* SpecPipeline: the text of the model's answer
    extractedData,\* SpecPipeline: extracted_data
    invoices,    \* SpecPipeline: the items of the DynamoDB table
    itemId,      \* SpecPipeline: the id save_invoice_data returned
    response,    \* SpecPipeline: the payload process_s3_event returned
    failed,      \* SpecPipeline: the stage that raised, "none" when none did
    errorText,   \* SpecPipeline: str(e) of what it raised
    recovered,   \* SpecPipeline: the record extract_invoice_data returned
    calls,       \* SpecPipeline: how often each outside operation was called
    saves,       \* SpecStore: the calls of save_invoice_data, each with its record and step
    issued,      \* SpecStore: the identifiers uuid4 has given
    asked,       \* SpecStore: the last read of the table and its arguments
    found,       \* SpecStore: what that read returned
    clientConfig,\* SpecBedrock: model_id, max_tokens and temperature of the client
    prompt,      \* SpecBedrock: the prompt handed to _create_request_body
    requestBody, \* SpecBedrock: the request body it gives
    responseBody,\* SpecBedrock: the decoded body of the model's response
    parsedText,  \* SpecBedrock: the outcome of _parse_response on it
    invocations, \* SpecShared: the calls of process_s3_event running side by side, each with its step
    tmpDir,      \* SpecShared: the files of /tmp and the object each one is a copy of
    clients,     \* SpecProvision: the DynamoDBClient objects being constructed, each with its step
    tableStatus, \* SpecProvision: the table as DynamoDB holds it ("absent", "creating", "active")
    created      \* SpecProvision: how many create_table calls DynamoDB accepted

recoverVars == <<text, parts, extracted, recovery>>
normVars == <<normIn, normOut, normOut2, normPc>>
fixVars == <<fixData, fixFilename, fixOut>>
dynamoVars == <<record, dynamoItem, restored>>
pipelineVars == <<modelId, s3Event, pc, docName, localPath, tmpFiles, pdfText, responseText,
                  extractedData, invoices, itemId, response, failed, errorText, recovered, calls>>
storeVars == <<saves, issued, asked, found>>
bedrockVars == <<clientConfig, prompt, requestBody, responseBody, parsedText>>
sharedVars == <<invocations, tmpDir>>
provisionVars == <<clients, tableStatus, created>>
vars == <<recoverVars, normVars, fixVars, dynamoVars, pipelineVars, storeVars, bedrockVars, sharedVars,
          provisionVars>>

(***************************************************************************)
(* Python values                                                           *)
(***************************************************************************)
None == [t |-> "NoneType", v |-> <<>>]
PyStr(s) == [t |-> "str", v |-> s]
PyInt(lit) == [t |-> "int", v |-> lit]
PyFloat(lit) == [t |-> "float", v |-> lit]
PyBool(b) == [t |-> "bool", v |-> b]
PyDict(pairs) == [t |-> "dict", v |-> pairs]
PyList(items) == [t |-> "list", v |-> items]
Exc(name) == [t |-> "exception", v |-> name]

\* bool(x): None, "", 0, 0.0, False, {} and [] are falsy
Truthy(x) ==
    CASE x.t = "NoneType" -> FALSE
      [] x.t = "bool" -> x.v
      [] x.t \in {"int", "float"} -> x.v \notin {<<"0">>, <<"0", ".", "0">>}
      [] OTHER -> Len(x.v) > 0

\* dict operations on the sequence of pairs
DictKeys(d) == {d[i][1] : i \in DOMAIN d}
DictHas(d, k) == \E i \in DOMAIN d : d[i][1] = k
DictGet(d, k) == d[CHOOSE i \in DOMAIN d : d[i][1] = k][2]
DictGetOr(d, k, dflt) == IF DictHas(d, k) THEN DictGet(d, k) ELSE dflt
DictSet(d, k, x) ==
    IF DictHas(d, k)
    THEN [i \in DOMAIN d |-> IF d[i][1] = k THEN <<k, x>> ELSE d[i]]
    ELSE Append(d, <<k, x>>)
\* d1 == d2 in Python: the same keys with the same values, in any order
DictEq(d1, d2) == {d1[i] : i \in DOMAIN d1} = {d2[i] : i \in DOMAIN d2}

(***************************************************************************)
(* Tokens of a text                                                        *)
(***************************************************************************)
Tok(t, v, c) == [c |-> c, t |-> t, v |-> v]
LB == Tok("lb", "{", "-")
RB == Tok("rb", "}", "-")
FENCE == Tok("fence", "fence", "-")
QUOTE == Tok("quote", "dquote", "-")
SP == Tok("ws", "space", "-")
NL == Tok("ws", "newline", "-")
Sym(s) == Tok("sym", s, "-")
Word(w, c) == Tok("word", w, c)        \* c: "l" lower, "u" upper, "m" mixed
KeyTok(name, c) == Tok("key", name, c)   \* a quoted member name and its colon
NumTok(g) == Tok("num", g, "-")          \* one group of digits
LitTok(w) == Tok("lit", w, "-")          \* null, true, false

\* a dict key: one atom, its name in lower case and its letter case
\* ("outputText" is Key("outputtext", "m"))
Key(name, c) == [c |-> c, v |-> name]
K(name) == Key(name, "l")

\* str.lower() / str.upper() of one atom or token
LowerAtom(a) == IF a.c = "-" THEN a ELSE [a EXCEPT !.c = "l"]
UpperAtom(a) == IF a.c = "-" THEN a ELSE [a EXCEPT !.c = "u"]
Lower(s) == [i \in DOMAIN s |-> LowerAtom(s[i])]
Upper(s) == [i \in DOMAIN s |-> UpperAtom(s[i])]

RECURSIVE SkipWs(_, _)
SkipWs(s, i) == IF i <= Len(s) /\ s[i].t = "ws" THEN SkipWs(s, i + 1) ELSE i

RECURSIVE SkipWsBack(_, _)
SkipWsBack(s, j) == IF j >= 1 /\ s[j].t = "ws" THEN SkipWsBack(s, j - 1) ELSE j

\* str.strip()
Strip(s) == SubSeq(s, SkipWs(s, 1), SkipWsBack(s, Len(s)))

\* Digits come in groups (a maximal run of digits is one num token); a
\* number literal is a sequence of groups and marks: <<"1500", ".", "5">>,
\* <<"1", "e+", "16">>.
DigitLen ==
    [g \in {"0", "1", "2", "5", "7"} |-> 1] @@
    [g \in {"00", "01", "07", "15", "16", "20", "50"} |-> 2] @@
    [g \in {"001", "100", "123", "500"} |-> 3] @@
    [g \in {"1000", "1500", "2024", "2140"} |-> 4]
DigitGroups == DOMAIN DigitLen
HasDot(lit) == \E i \in DOMAIN lit : lit[i] = "."
HasExp(lit) == \E i \in DOMAIN lit : lit[i] \in {"e+", "e-"}
LeadingZero(g) == g \in {"00", "01", "07", "001"}
\* the digits of a fraction as repr() prints them: trailing zeros dropped
ReprFrac(g) ==
    CASE g = "50" -> "5" [] g = "20" -> "2" [] g = "00" -> "0"
      [] g = "100" -> "1" [] g = "500" -> "5" [] g = "1000" -> "1"
      [] g = "1500" -> "15" [] g = "2140" -> "214" [] OTHER -> g
\* the digits of an integer as repr() prints them: leading zeros dropped
ReprInt(g) ==
    CASE g = "00" -> "0" [] g = "01" -> "1" [] g = "07" -> "7" [] g = "001" -> "1" [] OTHER -> g
\* float(s) of a literal with a fraction, and with an exponent where
\* repr() writes one too (one digit before the dot, an exponent of 16 or
\* more, or of -5 or less); a fraction of zero is not written before an
\* exponent
FloatOf(lit) ==
    LET mantissa == <<ReprInt(lit[1]), ".", ReprFrac(lit[3])>> IN
    IF Len(lit) = 3 THEN PyFloat(mantissa)
    ELSE IF ReprFrac(lit[3]) = "0" THEN PyFloat(<<ReprInt(lit[1]), lit[4], lit[5]>>)
    ELSE PyFloat(mantissa \o <<lit[4], lit[5]>>)

(***************************************************************************)
(* json.loads                                                              *)
(***************************************************************************)
\* The depth of nested objects at which the decoder recursion guard
\* fires; the interpreter's limit, scaled down.
RecursionLimit == 3

Res(st, val, pos) == [st |-> st, val |-> val, pos |-> pos]

\* a number: digits, a fraction when a dot and digits follow, an exponent
\* when a mark and digits follow; a leading zero ends the number and
\* leaves digits no rule accepts
ScanNumber(s, i) ==
    LET frac == i + 2 <= Len(s) /\ s[i + 1] = Sym(".") /\ s[i + 2].t = "num"
        j == IF frac THEN i + 3 ELSE i + 1
        exp == j + 1 <= Len(s) /\ s[j] \in {Sym("e+"), Sym("e-")} /\ s[j + 1].t = "num"
        fraction == IF frac THEN s[i + 2].v ELSE "0"
    IN  IF LeadingZero(s[i].v) THEN Res("JSONDecodeError", None, i)
        ELSE IF exp THEN Res("ok", FloatOf(<<s[i].v, ".", fraction, s[j].v, s[j + 1].v>>), j + 2)
        ELSE IF frac THEN Res("ok", FloatOf(<<s[i].v, ".", fraction>>), j)
        ELSE Res("ok", PyInt(<<s[i].v>>), j)
LitValue(w) == CASE w = "true" -> PyBool(TRUE) [] w = "false" -> PyBool(FALSE) [] OTHER -> None

\* the escapes of a string: a quote, a newline and the quotes of a member
\* name are written with a backslash
Escape(toks) ==
    [i \in DOMAIN toks |->
        CASE toks[i].t = "quote" -> Tok("esc", "dquote", "-")
          [] toks[i] = NL -> Tok("esc", "newline", "-")
          [] toks[i].t = "key" -> Tok("esckey", toks[i].v, toks[i].c)
          [] OTHER -> toks[i]]
Unescape(toks) ==
    [i \in DOMAIN toks |->
        CASE toks[i] = Tok("esc", "dquote", "-") -> QUOTE
          [] toks[i] = Tok("esc", "newline", "-") -> NL
          [] toks[i].t = "esckey" -> KeyTok(toks[i].v, toks[i].c)
          [] OTHER -> toks[i]]

\* a string: from after the opening quote to the closing quote.  The quote
\* of a member name ends it early and leaves text no grammar rule accepts;
\* a raw newline is a control character.
RECURSIVE ScanString(_, _, _)
ScanString(s, start, j) ==
    IF j > Len(s) THEN Res("JSONDecodeError", None, j)
    ELSE IF s[j].t = "quote" THEN Res("ok", PyStr(Unescape(SubSeq(s, start, j - 1))), j + 1)
    ELSE IF s[j].t = "key" \/ s[j] = NL THEN Res("JSONDecodeError", None, j)
    ELSE ScanString(s, start, j + 1)

RECURSIVE ScanOnce(_, _, _)
RECURSIVE ParseContainer(_, _, _, _, _, _)
ScanOnce(s, i0, depth) ==
    LET At(i) ==
            IF i > Len(s) THEN Res("JSONDecodeError", None, i)
            ELSE CASE s[i].t = "quote" -> ScanString(s, i + 1, i + 1)
                   [] s[i].t = "lb" \/ s[i] = Sym("[") ->
                        IF depth + 1 > RecursionLimit
                        THEN Res("RecursionError", None, i)
                        ELSE ParseContainer(s, i + 1, depth + 1, <<>>, TRUE, s[i].t = "lb")
                   [] s[i].t = "num" -> ScanNumber(s, i)
                   [] s[i].t = "lit" -> Res("ok", LitValue(s[i].v), i + 1)
                   [] OTHER -> Res("JSONDecodeError", None, i)
    IN  At(SkipWs(s, i0))

\* the members of an object (a member is a name and a value) or the items
\* of an array, up to the closing brace or bracket
ParseContainer(s, i0, depth, acc, first, object) ==
    LET close == IF object THEN RB ELSE Sym("]")
        made(x) == IF object THEN PyDict(x) ELSE PyList(x)
        \* after the value r of the member or item at i: a comma or the end
        After(i, r, j) ==
            LET acc2 == IF object THEN DictSet(acc, Key(s[i].v, s[i].c), r.val)
                        ELSE Append(acc, r.val)
            IN  IF r.st # "ok" THEN r
                ELSE IF j > Len(s) THEN Res("JSONDecodeError", None, j)
                ELSE IF s[j] = close THEN Res("ok", made(acc2), j + 1)
                ELSE IF s[j] = Sym(",")
                THEN ParseContainer(s, j + 1, depth, acc2, FALSE, object)
                ELSE Res("JSONDecodeError", None, j)
        Value(i, r) == After(i, r, IF r.st = "ok" THEN SkipWs(s, r.pos) ELSE i)
        At(i) ==
            IF i > Len(s) THEN Res("JSONDecodeError", None, i)
            ELSE IF first /\ s[i] = close THEN Res("ok", made(acc), i + 1)
            ELSE IF object /\ s[i].t # "key" THEN Res("JSONDecodeError", None, i)
            ELSE Value(i, ScanOnce(s, IF object THEN i + 1 ELSE i, depth))
    IN  At(SkipWs(s, i0))

JsonLoads(s) ==
    LET Whole(r) ==
            IF r.st # "ok" THEN r
            ELSE IF SkipWs(s, r.pos) <= Len(s) THEN Res("JSONDecodeError", None, r.pos)
            ELSE r
    IN  Whole(ScanOnce(s, 1, 0))

(***************************************************************************)
(* str() of a number, json.dumps                                           *)
(***************************************************************************)
\* str(x) of an int, a float or a bool, as tokens
StrOfNumber(x) ==
    IF x.t = "bool" THEN <<Word(IF x.v THEN "true" ELSE "false", "m")>>
    ELSE [i \in DOMAIN x.v |-> IF x.v[i] \in DigitGroups THEN NumTok(x.v[i]) ELSE Sym(x.v[i])]

RECURSIVE JsonDumps(_)
RECURSIVE DumpMembers(_, _)
RECURSIVE DumpItems(_, _)
JsonDumps(x) ==
    CASE x.t = "NoneType" -> <<LitTok("null")>>
      [] x.t = "bool" -> <<LitTok(IF x.v THEN "true" ELSE "false")>>
      [] x.t \in {"int", "float"} -> StrOfNumber(x)
      [] x.t = "str" -> <<QUOTE>> \o Escape(x.v) \o <<QUOTE>>
      [] x.t = "dict" -> <<LB>> \o DumpMembers(x.v, 1) \o <<RB>>
      [] x.t = "list" -> <<Sym("[")>> \o DumpItems(x.v, 1) \o <<Sym("]")>>
DumpMembers(d, n) ==
    IF n > Len(d) THEN <<>>
    ELSE <<KeyTok(d[n][1].v, d[n][1].c), SP>> \o JsonDumps(d[n][2])
            \o (IF n < Len(d) THEN <<Sym(","), SP>> ELSE <<>>) \o DumpMembers(d, n + 1)
DumpItems(l, n) ==
    IF n > Len(l) THEN <<>>
    ELSE JsonDumps(l[n]) \o (IF n < Len(l) THEN <<Sym(","), SP>> ELSE <<>>) \o DumpItems(l, n + 1)

(***************************************************************************)
(* BedrockClient._extract_json_from_response                               *)
(***************************************************************************)
Return(x) == [st |-> "return", val |-> x]
Raise(name) == [st |-> "raise", val |-> Exc(name)]

\* the positions j > b of a closing brace that only white space separates
\* from a fence
ClosersAfter(s, b) ==
    {j \in (b + 1)..Len(s) :
        /\ s[j].t = "rb"
        /\ SkipWs(s, j + 1) <= Len(s)
        /\ s[SkipWs(s, j + 1)].t = "fence"}

Min(S) == CHOOSE x \in S : \A y \in S : x <= y
Max(S) == CHOOSE x \in S : \A y \in S : x >= y

\* one match of the fenced-block pattern FENCE (?:json)? \s* ( \{ .*? \} ) \s* FENCE
\* starting at i
FenceMatchAt(s, i) ==
    LET a == IF i + 1 <= Len(s) /\ s[i + 1] = Word("json", "l") THEN i + 2 ELSE i + 1
        b == SkipWs(s, a)
        ok == /\ s[i].t = "fence"
              /\ b <= Len(s)
              /\ s[b].t = "lb"
              /\ ClosersAfter(s, b) # {}
        j == Min(ClosersAfter(s, b))
    IN  IF ok
        THEN [found |-> TRUE, group |-> SubSeq(s, b, j), end |-> SkipWs(s, j + 1) + 1]
        ELSE [found |-> FALSE, group |-> <<>>, end |-> i + 1]

\* re.findall: the matches from left to right, none overlapping another
RECURSIVE FenceMatches(_, _)
FenceMatches(s, i) ==
    LET From(m) == IF m.found THEN <<m.group>> \o FenceMatches(s, m.end)
                   ELSE FenceMatches(s, i + 1)
    IN  IF i > Len(s) THEN <<>> ELSE From(FenceMatchAt(s, i))

\* re.search(r'\{.*\}'): from the first opening brace to the last closing one
BraceSpan(s) ==
    LET opens == {i \in DOMAIN s : s[i].t = "lb"}
        a == Min(opens)
        closes == {j \in DOMAIN s : s[j].t = "rb" /\ j > a}
    IN  IF opens = {} \/ closes = {} THEN <<>> ELSE SubSeq(s, a, Max(closes))

\* one "try: json.loads ... except json.JSONDecodeError": a dict is
\* returned, a decode error is swallowed, any other exception propagates
TryLoads(s) ==
    LET Outcome(r) ==
            IF r.st = "ok" THEN (IF r.val.t = "dict" THEN Return(r.val) ELSE Return(None))
            ELSE IF r.st = "JSONDecodeError" THEN Return(None)
            ELSE Raise(r.st)
    IN  Outcome(JsonLoads(s))

RECURSIVE TryMatches(_, _)
TryMatches(ms, n) ==
    LET Outcome(r) == IF r.st = "raise" \/ r.val # None THEN r ELSE TryMatches(ms, n + 1)
    IN  IF n > Len(ms) THEN Return(None) ELSE Outcome(TryLoads(ms[n]))

ExtractJsonFromResponse(response_text) ==
    LET \* 3. the greedy brace pattern
        Third(span) == IF span # <<>> THEN TryLoads(span) ELSE Return(None)
        \* 2. the whole text
        Second(cleaned, whole) ==
            IF whole.st = "raise" \/ whole.val # None THEN whole ELSE Third(BraceSpan(cleaned))
        \* 1. the fenced blocks
        First(cleaned, fenced) ==
            IF fenced.st = "raise" \/ fenced.val # None THEN fenced
            ELSE Second(cleaned, TryLoads(cleaned))
        Cleaned(cleaned) == First(cleaned, TryMatches(FenceMatches(cleaned, 1), 1))
    IN  Cleaned(Strip(response_text))

(***************************************************************************)
(* BedrockClient._normalize_field_names                                    *)
(***************************************************************************)
\* the alias table, in the order of the source
FieldMappings ==
    << <<"fournisseur", <<"fournisseur", "supplier", "vendor", "vendeur">> >>,
       <<"montant_ht", <<"montant_ht", "montant", "amount", "total">> >>,
       <<"numero_facture", <<"numero_facture", "numero", "invoice_number", "facture_numero">> >>,
       <<"date_facture", <<"date_facture", "date", "invoice_date">> >>,
       <<"chrono", <<"chrono", "numero_chrono", "chrono_number", "document_chrono">> >>,
       <<"couverture", <<"couverture", "periode_couverture", "periode", "period", "coverage_period">> >>,
       <<"nom_fichier", <<"nom_fichier", "filename", "file_name">> >> >>

CanonicalFields == {FieldMappings[f][1] : f \in DOMAIN FieldMappings}
AliasNames == UNION {{FieldMappings[f][2][n] : n \in DOMAIN FieldMappings[f][2]} : f \in DOMAIN FieldMappings}

\* (mutant) the keys are kept as spelled: the lookup is case-sensitive
RECURSIVE DataLower_CaseSensitive(_, _, _)
DataLower_CaseSensitive(data, n, acc) ==
    IF n > Len(data) THEN acc
    ELSE DataLower_CaseSensitive(data, n + 1, DictSet(acc, data[n][1], data[n][2]))

\* (mutant) of two keys that differ only in letter case the earlier one
\* is kept
RECURSIVE DataLower_FirstKeyKept(_, _, _)
DataLower_FirstKeyKept(data, n, acc) ==
    IF n > Len(data) THEN acc
    ELSE DataLower_FirstKeyKept(data, n + 1,
            IF DictHas(acc, LowerAtom(data[n][1])) THEN acc
            ELSE DictSet(acc, LowerAtom(data[n][1]), data[n][2]))

\* {k.lower(): v for k, v in data.items()}: a later key overwrites an
\* earlier one that differs from it only in letter case
RECURSIVE DataLower(_, _, _)
DataLower(data, n, acc) ==
    IF n > Len(data) THEN acc
    ELSE DataLower(data, n + 1, DictSet(acc, LowerAtom(data[n][1]), data[n][2]))

\* (mutant) the loop over the aliases starts at the second name
RECURSIVE FirstAliasValue_SkipsFirstName(_, _, _)
FirstAliasValue_SkipsFirstName(names, n, data_lower) ==
    IF n = 1 THEN FirstAliasValue_SkipsFirstName(names, 2, data_lower)
    ELSE IF n > Len(names) THEN None
    ELSE IF DictHas(data_lower, LowerAtom(K(names[n])))
    THEN DictGet(data_lower, LowerAtom(K(names[n])))
    ELSE FirstAliasValue_SkipsFirstName(names, n + 1, data_lower)

\* the value of the first alias, in table order, that data_lower holds
RECURSIVE FirstAliasValue(_, _, _)
FirstAliasValue(names, n, data_lower) ==
    IF n > Len(names) THEN None
    ELSE IF DictHas(data_lower, LowerAtom(K(names[n])))
    THEN DictGet(data_lower, LowerAtom(K(names[n])))
    ELSE FirstAliasValue(names, n + 1, data_lower)

\* any(key_lower in [n.lower() for n in names] for names in field_mappings.values())
MatchesAlias(key) ==
    \E f \in DOMAIN FieldMappings : \E n \in DOMAIN FieldMappings[f][2] :
        LowerAtom(key) = LowerAtom(K(FieldMappings[f][2][n]))

\* (mutant) an unmapped key is stored under its lower-cased spelling
RECURSIVE KeepUnmapped_LowerCased(_, _, _)
KeepUnmapped_LowerCased(data, n, acc) ==
    IF n > Len(data) THEN acc
    ELSE KeepUnmapped_LowerCased(data, n + 1,
            IF MatchesAlias(data[n][1]) THEN acc
            ELSE DictSet(acc, LowerAtom(data[n][1]), data[n][2]))

\* the keys no alias matches are copied as they are
RECURSIVE KeepUnmapped(_, _, _)
KeepUnmapped(data, n, acc) ==
    IF n > Len(data) THEN acc
    ELSE KeepUnmapped(data, n + 1,
            IF MatchesAlias(data[n][1]) THEN acc ELSE DictSet(acc, data[n][1], data[n][2]))

NormalizeFieldNames(data) ==
    LET mapped == [f \in DOMAIN FieldMappings |->
                     <<K(FieldMappings[f][1]),
                       FirstAliasValue(FieldMappings[f][2], 1, DataLower(data, 1, <<>>))>>]
    IN  KeepUnmapped(data, 1, mapped)

(***************************************************************************)
(* BedrockClient._validate_extracted_data                                  *)
(***************************************************************************)
OptionalFields == <<"chrono", "couverture", "nom_fichier">>

RECURSIVE ValidateExtractedData(_, _)
ValidateExtractedData(data, n) ==
    IF n > Len(OptionalFields) THEN data
    ELSE ValidateExtractedData(
            IF DictHas(data, K(OptionalFields[n])) THEN data
            ELSE DictSet(data, K(OptionalFields[n]), None), n + 1)

(***************************************************************************)
(* BedrockClient._extract_manual_data                                      *)
(***************************************************************************)
\* the character classes of the patterns, on tokens
InClass(tok, cls) ==
    CASE cls = "colon_ws" -> tok.t = "ws" \/ tok = Sym(":")
      [] cls = "ws_hash_colon" -> tok.t = "ws" \/ tok \in {Sym("#"), Sym(":")}
      [] cls = "digit_comma_dot" -> tok.t = "num" \/ tok \in {Sym(","), Sym(".")}
      [] cls = "ident" -> tok.t \in {"word", "num", "lit"} \/ tok \in {Sym("-"), Sym("_")}
      [] cls = "not_newline" -> tok # NL

\* the index after the longest run of tokens of a class that starts at i
RECURSIVE RunEnd(_, _, _)
RunEnd(s, i, cls) ==
    IF i <= Len(s) /\ InClass(s[i], cls) THEN RunEnd(s, i + 1, cls) ELSE i

\* re.IGNORECASE: a label in any letter case
IsLabel(tok, names) == tok.t = "word" /\ tok.v \in names

NoMatch == [found |-> FALSE, group |-> <<>>]
Match(g) == [found |-> TRUE, group |-> g]

\* (?:fournisseur|supplier|vendeur)[:\s]+([^\n]+)
FournisseurAt(s, i) ==
    LET e == RunEnd(s, i + 1, "colon_ws")
        starts == {p \in (i + 2)..e : p <= Len(s) /\ s[p] # NL}
        p == Max(starts)
    IN  IF IsLabel(s[i], {"fournisseur", "supplier", "vendeur"}) /\ starts # {}
        THEN Match(SubSeq(s, p, RunEnd(s, p, "not_newline") - 1))
        ELSE NoMatch

\* (?:montant|amount|total)[:\s]+([\d,.]+)\s*EUR?
MontantAt(s, i) ==
    LET e == RunEnd(s, i + 1, "colon_ws")
        q == RunEnd(s, e, "digit_comma_dot")
    IN  IF IsLabel(s[i], {"montant", "amount", "total"}) /\ e > i + 1 /\ q > e
        THEN Match(SubSeq(s, e, q - 1))
        ELSE NoMatch

\* (?:numero|numero with an acute accent|facture|invoice)[\s#:]+([A-Za-z0-9\-_]+)
\* (the accented letter is no letter of [A-Za-z], so the accented label is
\* three tokens: num, the letter, ro)
NumeroAt(s, i) ==
    LET accented == /\ i + 2 <= Len(s)
                    /\ IsLabel(s[i], {"num"})
                    /\ s[i + 1] = Sym("e_acute")
                    /\ IsLabel(s[i + 2], {"ro"})
        k == IF accented THEN i + 3 ELSE i + 1
        e == RunEnd(s, k, "ws_hash_colon")
        q == RunEnd(s, e, "ident")
    IN  IF (accented \/ IsLabel(s[i], {"numero", "facture", "invoice"})) /\ e > k /\ q > e
        THEN Match(SubSeq(s, e, q - 1))
        ELSE NoMatch

\* \d{2}[/-]\d{2}[/-]\d{4}|\d{4}[/-]\d{2}[/-]\d{2} at e (each group of
\* digits a whole token)
DateShapeAt(s, e) ==
    /\ e + 4 <= Len(s)
    /\ \A k \in {e, e + 2, e + 4} : s[k].t = "num"
    /\ \A k \in {e + 1, e + 3} : s[k] \in {Sym("/"), Sym("-")}
    /\ <<DigitLen[s[e].v], DigitLen[s[e + 2].v], DigitLen[s[e + 4].v]>>
          \in {<<2, 2, 4>>, <<4, 2, 2>>}

\* (?:date|date facture)[:\s]+(...)
DateAt(s, i) ==
    LET e1 == RunEnd(s, i + 1, "colon_ws")
        long == /\ i + 2 <= Len(s)
                /\ s[i + 1] = SP
                /\ IsLabel(s[i + 2], {"facture"})
        e2 == RunEnd(s, i + 3, "colon_ws")
    IN  IF ~IsLabel(s[i], {"date"}) THEN NoMatch
        ELSE IF e1 > i + 1 /\ DateShapeAt(s, e1) THEN Match(SubSeq(s, e1, e1 + 4))
        ELSE IF long /\ e2 > i + 3 /\ DateShapeAt(s, e2) THEN Match(SubSeq(s, e2, e2 + 4))
        ELSE NoMatch

\* (\d+[.,]\d{2})\s*EUR
AmountAt(s, i) ==
    IF /\ i + 2 <= Len(s)
       /\ s[i].t = "num"
       /\ s[i + 1] \in {Sym("."), Sym(",")}
       /\ s[i + 2].t = "num"
       /\ DigitLen[s[i + 2].v] = 2
       /\ SkipWs(s, i + 3) <= Len(s)
       /\ s[SkipWs(s, i + 3)] = Sym("EUR")
    THEN Match(SubSeq(s, i, i + 2))
    ELSE NoMatch

\* re.search: the match that starts leftmost
SearchAt(s, field, i) ==
    CASE field = "fournisseur" -> FournisseurAt(s, i)
      [] field = "montant_ht" -> MontantAt(s, i)
      [] field = "numero_facture" -> NumeroAt(s, i)
      [] field = "date_facture" -> DateAt(s, i)
      [] field = "amount" -> AmountAt(s, i)

Search(s, field) ==
    LET At(i) == SearchAt(s, field, i)
        hits == {i \in DOMAIN s : At(i).found}
    IN  IF hits = {} THEN NoMatch ELSE At(Min(hits))

\* extracted_data[field] = match.group(1).strip()
LabelledValue(s, field) ==
    LET Group(m) == IF m.found THEN PyStr(Strip(m.group)) ELSE None
    IN  Group(Search(s, field))

\* (mutant) the record starts empty: only the fields a pattern found are set
ExtractManualData_FoundOnly(response_text) ==
    SelectSeq(<< <<K("fournisseur"), LabelledValue(response_text, "fournisseur")>>,
                 <<K("montant_ht"), LabelledValue(response_text, "montant_ht")>>,
                 <<K("numero_facture"), LabelledValue(response_text, "numero_facture")>>,
                 <<K("date_facture"), LabelledValue(response_text, "date_facture")>> >>,
              LAMBDA pair : pair[2] # None)

ExtractManualData(response_text) ==
    LET Montant(labelled, amount) ==
            IF amount.found /\ ~Truthy(labelled)
            THEN FloatOf(<<amount.group[1].v, ".", amount.group[3].v>>)
            ELSE labelled
    IN  << <<K("fournisseur"), LabelledValue(response_text, "fournisseur")>>,
           <<K("montant_ht"),
             Montant(LabelledValue(response_text, "montant_ht"), Search(response_text, "amount"))>>,
           <<K("numero_facture"), LabelledValue(response_text, "numero_facture")>>,
           <<K("date_facture"), LabelledValue(response_text, "date_facture")>>,
           <<K("chrono"), None>>,
           <<K("couverture"), None>>,
           <<K("nom_fichier"), None>> >>

(***************************************************************************)
(* BedrockClient.extract_invoice_data, from the model's text on            *)
(***************************************************************************)
RecoverRecord(response_text) ==
    LET From(extracted_data) ==
            IF extracted_data.st = "raise" THEN extracted_data
            ELSE IF Truthy(extracted_data.val)
            THEN Return(PyDict(ValidateExtractedData(NormalizeFieldNames(extracted_data.val.v), 1)))
            ELSE Return(PyDict(ExtractManualData(response_text)))
    IN  From(ExtractJsonFromResponse(response_text))

(***************************************************************************)
(* InvoiceExtractorSimple._fix_supplier_if_needed                          *)
(***************************************************************************)
\* a name of one of the two lists: its words in upper case, one space
\* between two words
Name1(w) == <<Word(w, "u")>>
Name2(w1, w2) == <<Word(w1, "u"), SP, Word(w2, "u")>>

KnownClients ==
    <<Name1("boardriders"), Name2("na", "pali"), Name1("quiksilver"), Name1("kauai"),
      Name1("vanuatu"), Name2("emerald", "coast"), Name1("pukalani"), Name1("hanalei"),
      Name1("tarawa"), Name2("sunshine", "diffusion")>>

KnownSuppliers ==
    <<Name1("telefonica"), Name1("cegedim"), Name1("bouygues"), Name1("orange"),
      Name1("sfr"), Name1("free"), Name1("ovh")>>

\* needle in hay
Contains(hay, needle) ==
    \E i \in 1..(Len(hay) - Len(needle) + 1) : SubSeq(hay, i, i + Len(needle) - 1) = needle

\* (mutant) the filename is searched as it is spelled
FilenameUpper_AsSpelled(filename) == filename

\* filename.upper()
FilenameUpper(filename) == Upper(filename)

\* the loop over known_suppliers: the first name, in list order, that the
\* upper-cased filename contains
SupplierFromFilename(filename) ==
    LET filename_upper == FilenameUpper(filename)
        hits == {n \in DOMAIN KnownSuppliers : Contains(filename_upper, KnownSuppliers[n])}
    IN  IF hits = {} THEN None ELSE PyStr(KnownSuppliers[Min(hits)])

\* (mutant) when the corrector fires it returns a record of the supplier
\* alone, and otherwise the record with the supplier in upper case
FixSupplierIfNeeded_NewRecord(data, filename) ==
    LET fournisseur == DictGetOr(data, K("fournisseur"), PyStr(<<>>)) IN
    IF ~Truthy(fournisseur) THEN Return(PyDict(data))
    ELSE IF fournisseur.t # "str" THEN Raise("AttributeError")
    ELSE IF \E c \in DOMAIN KnownClients : Contains(Upper(fournisseur.v), KnownClients[c])
    THEN Return(PyDict(<< <<K("fournisseur"), SupplierFromFilename(filename)>> >>))
    ELSE Return(PyDict(DictSet(data, K("fournisseur"), PyStr(Upper(fournisseur.v)))))

\* data is the sequence of pairs of the record; a truthy supplier that is
\* not a str has no upper()
FixSupplierIfNeeded(data, filename) ==
    LET fournisseur == DictGetOr(data, K("fournisseur"), PyStr(<<>>)) IN
    IF ~Truthy(fournisseur) THEN Return(PyDict(data))
    ELSE IF fournisseur.t # "str" THEN Raise("AttributeError")
    ELSE LET fournisseur_upper == Upper(fournisseur.v)
             is_known_client == \E c \in DOMAIN KnownClients :
                                    Contains(fournisseur_upper, KnownClients[c])
         IN  IF is_known_client
             THEN Return(PyDict(DictSet(data, K("fournisseur"), SupplierFromFilename(filename))))
             ELSE Return(PyDict(data))

(***************************************************************************)
(* DynamoDBClient._convert_to_dynamo_format, _convert_from_dynamo_format   *)
(***************************************************************************)
\* a DynamoDB attribute value {kind: x}
Attr(kind, x) == [t |-> kind, v |-> x]

\* isinstance(v, (int, float)): a bool is an int
IsNumber(x) == x.t \in {"int", "float", "bool"}

RECURSIVE ConvertToDynamoFormat(_, _, _)
ConvertToDynamoFormat(item, n, dynamo_item) ==
    IF n > Len(item) THEN dynamo_item
    ELSE LET key == item[n][1]
             value == item[n][2]
             attr ==
                CASE value.t = "str" -> Attr("S", value.v)
                  [] value.t = "bool" -> Attr("BOOL", value.v)
                  [] value.t \in {"int", "float"} -> Attr("N", StrOfNumber(value))
                  [] value.t = "dict" -> Attr("M", ConvertToDynamoFormat(value.v, 1, <<>>))
                  [] value.t = "list" ->
                        IF \A i \in DOMAIN value.v : value.v[i].t = "str"
                        THEN Attr("SS", [i \in DOMAIN value.v |-> value.v[i].v])
                        ELSE IF \A i \in DOMAIN value.v : IsNumber(value.v[i])
                        THEN Attr("NS", [i \in DOMAIN value.v |-> StrOfNumber(value.v[i])])
                        ELSE Attr("S", JsonDumps(value))
         IN  ConvertToDynamoFormat(item, n + 1,
                IF value = None THEN dynamo_item ELSE DictSet(dynamo_item, key, attr))

\* '.' in num_str
DotIn(num_str) == \E i \in DOMAIN num_str : num_str[i] = Sym(".")

\* int(num_str): a run of digits
IntOfStr(num_str) ==
    IF Len(num_str) = 1 /\ num_str[1].t = "num"
    THEN Return(PyInt(<<ReprInt(num_str[1].v)>>))
    ELSE Raise("ValueError")

\* float(num_str): digits, a dot, digits, and an exponent or none
FloatOfStr(num_str) ==
    LET shape == [i \in DOMAIN num_str |->
                    IF num_str[i].t = "num" THEN "d"
                    ELSE IF num_str[i] \in {Sym("e+"), Sym("e-")} THEN "e"
                    ELSE num_str[i].v]
    IN  IF shape \in {<<"d", ".", "d">>, <<"d", ".", "d", "e", "d">>}
        THEN Return(FloatOf([i \in DOMAIN num_str |-> num_str[i].v]))
        ELSE Raise("ValueError")

\* the N branch: try float or int, keep the string on ValueError
NumberOrString(num_str) ==
    LET r == IF DotIn(num_str) THEN FloatOfStr(num_str) ELSE IntOfStr(num_str)
    IN  IF r.st = "raise" THEN Return(PyStr(num_str)) ELSE r

\* the NS branch: a list comprehension, no try around it
RECURSIVE NumberList(_, _, _)
NumberList(ns, n, acc) ==
    IF n > Len(ns) THEN Return(PyList(acc))
    ELSE LET r == IF DotIn(ns[n]) THEN FloatOfStr(ns[n]) ELSE IntOfStr(ns[n])
         IN  IF r.st = "raise" THEN r ELSE NumberList(ns, n + 1, Append(acc, r.val))

\* item["parsed_data"] = json.loads(item["raw_data"]), {} on a decode error
ParseRawData(item) ==
    LET raw_data == DictGet(item, K("raw_data"))
        r == JsonLoads(raw_data.v)
    IN  IF ~DictHas(item, K("raw_data")) THEN Return(PyDict(item))
        ELSE IF raw_data.t # "str" THEN Raise("TypeError")
        ELSE IF r.st = "ok" THEN Return(PyDict(DictSet(item, K("parsed_data"), r.val)))
        ELSE IF r.st = "JSONDecodeError"
        THEN Return(PyDict(DictSet(item, K("parsed_data"), PyDict(<<>>))))
        ELSE Raise(r.st)

RECURSIVE ConvertFromDynamoFormat(_, _, _)
ConvertFromDynamoFormat(dynamo_item, n, item) ==
    IF n > Len(dynamo_item) THEN ParseRawData(item)
    ELSE LET key == dynamo_item[n][1]
             value_dict == dynamo_item[n][2]
             r == CASE value_dict.t = "S" -> Return(PyStr(value_dict.v))
                    [] value_dict.t = "N" -> NumberOrString(value_dict.v)
                    [] value_dict.t = "BOOL" -> Return(PyBool(value_dict.v))
                    [] value_dict.t = "M" -> ConvertFromDynamoFormat(value_dict.v, 1, <<>>)
                    [] value_dict.t = "SS" ->
                          Return(PyList([i \in DOMAIN value_dict.v |-> PyStr(value_dict.v[i])]))
                    [] value_dict.t = "NS" -> NumberList(value_dict.v, 1, <<>>)
                    [] value_dict.t = "NULL" -> Return(None)
         IN  IF r.st = "raise" THEN r
             ELSE ConvertFromDynamoFormat(dynamo_item, n + 1, DictSet(item, key, r.val))

(***************************************************************************)
(* repr() of a value, as str() of a dict or a list writes it               *)
(***************************************************************************)
RECURSIVE Repr(_)
RECURSIVE ReprMembers(_, _)
RECURSIVE ReprItems(_, _)
Repr(x) ==
    CASE x.t = "NoneType" -> <<Word("none", "m")>>
      [] x.t \in {"bool", "int", "float"} -> StrOfNumber(x)
      [] x.t = "str" -> <<Sym("'")>> \o Escape(x.v) \o <<Sym("'")>>
      [] x.t = "dict" -> <<LB>> \o ReprMembers(x.v, 1) \o <<RB>>
      [] x.t = "list" -> <<Sym("[")>> \o ReprItems(x.v, 1) \o <<Sym("]")>>
ReprMembers(d, n) ==
    IF n > Len(d) THEN <<>>
    ELSE <<Sym("'"), Word(d[n][1].v, d[n][1].c), Sym("'"), Sym(":"), SP>> \o Repr(d[n][2])
            \o (IF n < Len(d) THEN <<Sym(","), SP>> ELSE <<>>) \o ReprMembers(d, n + 1)
ReprItems(l, n) ==
    IF n > Len(l) THEN <<>>
    ELSE Repr(l[n]) \o (IF n < Len(l) THEN <<Sym(","), SP>> ELSE <<>>) \o ReprItems(l, n + 1)

(***************************************************************************)
(* BedrockClient._detect_model_type, _parse_response                       *)
(***************************************************************************)
\* a model id is a text; the provider tokens are looked for in it, in
\* lower case, in this order
ProviderTokens == <<"anthropic", "meta", "amazon", "ai21", "cohere">>
DetectModelType(model_id) ==
    LET hits == {n \in DOMAIN ProviderTokens :
                    Contains(Lower(model_id), <<Word(ProviderTokens[n], "l")>>)}
    IN  IF hits = {} THEN "unknown" ELSE ProviderTokens[Min(hits)]

\* f"\n\nHuman: {prompt}\n\nAssistant:"
HumanTurn(prompt_text) ==
    <<NL, NL, Word("human", "m"), Sym(":"), SP>> \o prompt_text
        \o <<NL, NL, Word("assistant", "m"), Sym(":")>>

TopP == PyFloat(<<"0", ".", "9">>)
NoPenalty == PyDict(<< <<K("scale"), PyInt(<<"0">>)>> >>)

\* _create_request_body: one shape for each model type, and one for the rest
CreateRequestBody(model_type, prompt_text, max_tokens, temperature_value) ==
    CASE model_type = "anthropic" ->
            << <<K("prompt"), PyStr(HumanTurn(prompt_text))>>,
               <<K("max_tokens_to_sample"), max_tokens>>,
               <<K("temperature"), temperature_value>>,
               <<K("stop_sequences"),
                 PyList(<<PyStr(<<NL, NL, Word("human", "m"), Sym(":")>>)>>)>> >>
      [] model_type = "meta" ->
            << <<K("prompt"), PyStr(prompt_text)>>,
               <<K("max_gen_len"), max_tokens>>,
               <<K("temperature"), temperature_value>>,
               <<K("top_p"), TopP>> >>
      [] model_type = "amazon" ->
            << <<Key("inputtext", "m"), PyStr(prompt_text)>>,
               <<Key("textgenerationconfig", "m"),
                 PyDict(<< <<Key("maxtokencount", "m"), max_tokens>>,
                           <<K("temperature"), temperature_value>>,
                           <<Key("topp", "m"), TopP>>,
                           <<Key("stopsequences", "m"), PyList(<<>>)>> >>)>> >>
      [] model_type = "ai21" ->
            << <<K("prompt"), PyStr(prompt_text)>>,
               <<Key("maxtokens", "m"), max_tokens>>,
               <<K("temperature"), temperature_value>>,
               <<Key("topp", "m"), TopP>>,
               <<Key("stopsequences", "m"), PyList(<<>>)>>,
               <<Key("countpenalty", "m"), NoPenalty>>,
               <<Key("presencepenalty", "m"), NoPenalty>>,
               <<Key("frequencypenalty", "m"), NoPenalty>> >>
      [] model_type = "cohere" ->
            << <<K("prompt"), PyStr(prompt_text)>>,
               <<K("max_tokens"), max_tokens>>,
               <<K("temperature"), temperature_value>>,
               <<K("p"), TopP>>,
               <<K("k"), PyInt(<<"0">>)>>,
               <<K("stop_sequences"), PyList(<<>>)>>,
               <<K("return_likelihoods"), PyStr(<<Word("none", "u")>>)>> >>
      [] OTHER ->
            << <<K("prompt"), PyStr(HumanTurn(prompt_text))>>,
               <<K("max_tokens_to_sample"), max_tokens>>,
               <<K("temperature"), temperature_value>> >>

\* x.strip() of whatever x is
StripValue(x) == IF x.t = "str" THEN Return(PyStr(Strip(x.v))) ELSE Raise("AttributeError")

\* x.get(key, dflt) of whatever x is
GetValue(x, key, dflt) ==
    IF x.t = "dict" THEN Return(DictGetOr(x.v, key, dflt)) ELSE Raise("AttributeError")

\* x[0] of whatever x is
FirstItem(x) ==
    CASE x.t = "list" -> IF Len(x.v) > 0 THEN Return(x.v[1]) ELSE Raise("IndexError")
      [] x.t = "str" -> IF Len(x.v) > 0 THEN Return(PyStr(<<x.v[1]>>)) ELSE Raise("IndexError")
      [] x.t = "dict" -> Raise("KeyError")
      [] OTHER -> Raise("TypeError")

\* items[0].get(key, "").strip() when items is truthy, "" when it is not
FirstText(items, key) ==
    LET first == FirstItem(items)
        got == GetValue(first.val, key, PyStr(<<>>))
    IN  IF ~Truthy(items) THEN Return(PyStr(<<>>))
        ELSE IF first.st = "raise" THEN first
        ELSE IF got.st = "raise" THEN got
        ELSE StripValue(got.val)

EmptyStr == PyStr(<<>>)

\* the names the last branch looks for in the body
TextKeys == {K("completion"), K("generation"), Key("outputtext", "m")}

\* _parse_response of a body that is no dict: a list, a string, a number,
\* null.  .get fails on each; the in of the last branch looks among the
\* items of a list and inside a string, and subscripting either by a
\* name fails
ParseOther(model_type, response_body) ==
    LET named(k) == <<Word(k.v, k.c)>>
    IN  IF model_type # "unknown" THEN Raise("AttributeError")
        ELSE IF response_body.t = "list"
        THEN IF \E i \in DOMAIN response_body.v, k \in TextKeys :
                    response_body.v[i] = PyStr(named(k))
             THEN Raise("TypeError")
             ELSE Return(PyStr(Repr(response_body)))
        ELSE IF response_body.t = "str"
        THEN IF \E k \in TextKeys : Contains(response_body.v, named(k))
             THEN Raise("TypeError")
             ELSE Return(response_body)
        ELSE Raise("TypeError")

ParseResponse(model_type, response_body) ==
    LET body == response_body.v IN
    CASE response_body.t # "dict" -> ParseOther(model_type, response_body)
      [] model_type = "anthropic" -> StripValue(DictGetOr(body, K("completion"), EmptyStr))
      [] model_type = "meta" -> StripValue(DictGetOr(body, K("generation"), EmptyStr))
      [] model_type = "amazon" ->
            FirstText(DictGetOr(body, K("results"), PyList(<<>>)), Key("outputtext", "m"))
      [] model_type = "ai21" ->
            LET first == FirstItem(DictGetOr(body, K("completions"), PyList(<<PyDict(<<>>)>>)))
                data == GetValue(first.val, K("data"), PyDict(<<>>))
                got == GetValue(data.val, K("text"), EmptyStr)
            IN  IF first.st = "raise" THEN first
                ELSE IF data.st = "raise" THEN data
                ELSE IF got.st = "raise" THEN got
                ELSE StripValue(got.val)
      [] model_type = "cohere" ->
            FirstText(DictGetOr(body, K("generations"), PyList(<<>>)), K("text"))
      [] OTHER ->
            IF DictHas(body, K("completion")) THEN StripValue(DictGet(body, K("completion")))
            ELSE IF DictHas(body, K("generation")) THEN StripValue(DictGet(body, K("generation")))
            ELSE IF DictHas(body, Key("outputtext", "m"))
            THEN StripValue(DictGet(body, Key("outputtext", "m")))
            ELSE Return(PyStr(Repr(response_body)))

(***************************************************************************)
(* DynamoDBClient.save_invoice_data: the item written for a record         *)
(***************************************************************************)
\* the fields copied to columns of their own, as the source names them
ExtractedFields_WithId ==
    <<K("invoice_id"), K("fournisseur"), K("montant_ht"), K("numero_facture"), K("date_facture")>>

ExtractedFields ==
    <<K("fournisseur"), K("montant_ht"), K("numero_facture"), K("date_facture"),
      Key("le numero chrono du document", "m"), Key("la periode de couverture", "m"),
      K("nom du fichier que tu trouves ici"), K("filename"), K("extraction_date"), K("pdf_path")>>

RECURSIVE CopyFields(_, _, _)
CopyFields(invoice_data, n, item) ==
    IF n > Len(ExtractedFields) THEN item
    ELSE LET field == ExtractedFields[n]
             value == DictGet(invoice_data, field)
         IN  CopyFields(invoice_data, n + 1,
                IF DictHas(invoice_data, field) /\ value # None
                THEN DictSet(item, field,
                        IF value.t \in {"str", "int", "float", "bool"} THEN value
                        ELSE PyStr(Repr(value)))
                ELSE item)

\* (mutant) raw_data holds the fields that have a column only
InvoiceItem_ColumnsOnly(invoice_data, invoice_id, created_at) ==
    CopyFields(invoice_data, 1,
        << <<K("invoice_id"), PyStr(invoice_id)>>,
           <<K("created_at"), PyStr(created_at)>>,
           <<K("raw_data"), PyStr(JsonDumps(PyDict(CopyFields(invoice_data, 1, <<>>))))>> >>)

\* the item before it is marshalled
InvoiceItem(invoice_data, invoice_id, created_at) ==
    CopyFields(invoice_data, 1,
        << <<K("invoice_id"), PyStr(invoice_id)>>,
           <<K("created_at"), PyStr(created_at)>>,
           <<K("raw_data"), PyStr(JsonDumps(PyDict(invoice_data)))>> >>)

\* put_item: the item replaces the one of the same invoice_id, if any
PutItem(table, dynamo_item) ==
    {i \in table : DictGet(i, K("invoice_id")) # DictGet(dynamo_item, K("invoice_id"))}
        \cup {dynamo_item}

(***************************************************************************)
(* The table and its reads: _create_table, get_invoice, query_by_*         *)
(***************************************************************************)
\* the key attributes of the three secondary indexes, each declared S
IndexKeys == {K("numero_facture"), K("date_facture"), K("fournisseur")}

\* put_item takes an item whose index key attributes, where present, are
\* of the declared type and not empty; it refuses any other with a
\* ClientError
Accepts(dynamo_item) ==
    \A k \in IndexKeys :
        DictHas(dynamo_item, k) =>
            DictGet(dynamo_item, k).t = "S" /\ DictGet(dynamo_item, k).v # <<>>

\* a list the store returns in an order of its own: the items in it
Items(set) == [t |-> "items", v |-> set]

\* [self._convert_from_dynamo_format(item) for item in items]: the first
\* conversion that raises ends the comprehension
ConvertAll(items) ==
    LET Of(converted) ==
            IF \E r \in converted : r.st = "raise"
            THEN CHOOSE r \in converted : r.st = "raise"
            ELSE Return(Items({r.val : r \in converted}))
    IN  Of({ConvertFromDynamoFormat(i, 1, <<>>) : i \in items})

\* get_item under the key, None when there is no item
GetInvoice_AnyItem(table, invoice_id) ==
    IF table = {} THEN Return(None)
    ELSE ConvertFromDynamoFormat(CHOOSE i \in table : TRUE, 1, <<>>)

GetInvoice(table, invoice_id) ==
    LET Of(item) ==
            IF item = {} THEN Return(None)
            ELSE ConvertFromDynamoFormat(CHOOSE i \in item : TRUE, 1, <<>>)
    IN  Of({i \in table : DictGet(i, K("invoice_id")) = Attr("S", invoice_id)})

\* a query of an index: the items whose key attribute is the string asked
QueryIndex(table, key, value) ==
    ConvertAll({i \in table : DictHas(i, key) /\ DictGet(i, key) = Attr("S", value)})

QueryByInvoiceNumber(table, invoice_number) ==
    QueryIndex(table, K("numero_facture"), invoice_number)

QueryBySupplier_ByNumber(table, supplier) == QueryIndex(table, K("numero_facture"), supplier)

QueryBySupplier(table, supplier) == QueryIndex(table, K("fournisseur"), supplier)

\* BETWEEN compares strings by their characters: the code points of the
\* digits and separators a date is written with
DigitCodes ==
    [g \in {"0"} |-> <<48>>] @@ [g \in {"1"} |-> <<49>>] @@ [g \in {"2"} |-> <<50>>] @@
    [g \in {"5"} |-> <<53>>] @@ [g \in {"7"} |-> <<55>>] @@
    [g \in {"00"} |-> <<48, 48>>] @@ [g \in {"01"} |-> <<48, 49>>] @@
    [g \in {"07"} |-> <<48, 55>>] @@ [g \in {"15"} |-> <<49, 53>>] @@
    [g \in {"16"} |-> <<49, 54>>] @@ [g \in {"20"} |-> <<50, 48>>] @@
    [g \in {"50"} |-> <<53, 48>>] @@ [g \in {"001"} |-> <<48, 48, 49>>] @@
    [g \in {"100"} |-> <<49, 48, 48>>] @@ [g \in {"123"} |-> <<49, 50, 51>>] @@
    [g \in {"500"} |-> <<53, 48, 48>>] @@ [g \in {"1000"} |-> <<49, 48, 48, 48>>] @@
    [g \in {"1500"} |-> <<49, 53, 48, 48>>] @@ [g \in {"2024"} |-> <<50, 48, 50, 52>>] @@
    [g \in {"2140"} |-> <<50, 49, 52, 48>>]

RECURSIVE CharCodes(_)
CharCodes(s) ==
    IF s = <<>> THEN <<>>
    ELSE (CASE s[1].t = "num" -> DigitCodes[s[1].v]
            [] s[1] = Sym("-") -> <<45>>
            [] s[1] = Sym("/") -> <<47>>) \o CharCodes(Tail(s))

\* a <= b of two strings, given as code points
RECURSIVE CodesLeq(_, _)
CodesLeq(a, b) ==
    IF a = <<>> THEN TRUE
    ELSE IF b = <<>> THEN FALSE
    ELSE IF a[1] # b[1] THEN a[1] < b[1]
    ELSE CodesLeq(Tail(a), Tail(b))

\* x BETWEEN lo AND hi on attributes: of the same type, and lo <= x <= hi
Between_EndExcluded(attr, start, end) ==
    /\ attr.t = "S"
    /\ CodesLeq(CharCodes(start), CharCodes(attr.v))
    /\ CodesLeq(CharCodes(attr.v), CharCodes(end))
    /\ attr.v # end

Between(attr, start, end) ==
    /\ attr.t = "S"
    /\ CodesLeq(CharCodes(start), CharCodes(attr.v))
    /\ CodesLeq(CharCodes(attr.v), CharCodes(end))

\* a scan of the table with the filter on date_facture
QueryByDateRange(table, start_date, end_date) ==
    ConvertAll({i \in table : DictHas(i, K("date_facture"))
                    /\ Between(DictGet(i, K("date_facture")), start_date, end_date)})

(***************************************************************************)
(* InvoiceExtractorSimple.process_s3_event, extract_from_pdf               *)
(***************************************************************************)
\* x[key] of whatever x is; the key 0 is the first item of a list
Subscript(x, key) ==
    CASE x.t = "dict" -> IF DictHas(x.v, key) THEN Return(DictGet(x.v, key)) ELSE Raise("KeyError")
      [] x.t = "list" ->
            IF key # K("0") THEN Raise("TypeError")
            ELSE IF Len(x.v) > 0 THEN Return(x.v[1]) ELSE Raise("IndexError")
      [] OTHER -> Raise("TypeError")

\* x[k1][k2]...: the first subscript that raises ends the walk; key is
\* the subscript it raised at
RECURSIVE Walk(_, _, _)
Walk(x, keys, n) ==
    IF n > Len(keys) THEN Return(x)
    ELSE LET r == Subscript(x, keys[n]) IN
         IF r.st = "raise" THEN [st |-> "raise", val |-> r.val, key |-> keys[n]]
         ELSE Walk(r.val, keys, n + 1)

\* unquote_plus: a plus is a space, %2F a slash, %20 a space
UnquotePlus(key) ==
    [i \in DOMAIN key |->
        CASE key[i] = Sym("+") -> SP
          [] key[i] = Sym("%20") -> SP
          [] key[i] = Sym("%2F") -> Sym("/")
          [] OTHER -> key[i]]

\* Path(key).name: what follows the last slash, trailing slashes aside
RECURSIVE DropTrailingSlashes(_)
DropTrailingSlashes(key) ==
    IF Len(key) > 0 /\ key[Len(key)] = Sym("/")
    THEN DropTrailingSlashes(SubSeq(key, 1, Len(key) - 1))
    ELSE key
PathName(key) ==
    LET path == DropTrailingSlashes(key)
        slashes == {i \in DOMAIN path : path[i] = Sym("/")}
    IN  IF slashes = {} THEN path ELSE SubSeq(path, Max(slashes) + 1, Len(path))

\* f"/tmp/{filename}"
LocalPath(filename) == <<Sym("/"), Word("tmp", "l"), Sym("/")>> \o filename

\* the bucket and the key of the first record of the event
EventBucket(event) ==
    Walk(event, <<Key("records", "m"), K("0"), K("s3"), K("bucket"), K("name")>>, 1)
EventKey(event) ==
    Walk(event, <<Key("records", "m"), K("0"), K("s3"), K("object"), K("key")>>, 1)

\* extract_from_pdf, step 5: the metadata
AddMetadata(extracted_data, filename, pdf_path, now) ==
    LET named == IF Truthy(DictGetOr(extracted_data, K("nom_fichier"), None))
                 THEN extracted_data
                 ELSE DictSet(extracted_data, K("nom_fichier"), PyStr(filename))
    IN  DictSet(DictSet(named, K("extraction_date"), PyStr(now)), K("pdf_path"), PyStr(pdf_path))

\* str(e) of the exceptions the code itself raises
ExceptionText(name, arg) ==
    CASE name = "KeyError" -> <<Sym("'"), Word(arg.v, arg.c), Sym("'")>>
      [] name = "IndexError" -> <<Word("list index out of range", "l")>>
      [] name = "TypeError" -> <<Word("object is not subscriptable", "l")>>
      [] name = "ValueError" -> <<Word("aucun texte extrait du pdf", "m"), Sym(":"), SP>> \o arg
      [] name = "AttributeError" -> <<Word("object has no attribute", "l")>>
      [] name = "RecursionError" -> <<Word("maximum recursion depth exceeded", "l")>>
      [] OTHER -> <<Word(name, "m")>>

\* the except clause of process_s3_event catches Exception, and every
\* exception of the model is one
ExceptionClasses ==
    {"KeyError", "IndexError", "TypeError", "ClientError", "PdfReadError", "ValueError",
     "AttributeError", "RecursionError", "OSError"}

\* (mutant) the clause catches the errors of the AWS clients only
Catches_ClientErrorOnly(name) == name = "ClientError"

Catches(name) == name \in ExceptionClasses

SuccessMessage == <<Word("facture traitee avec succes", "m")>>
FailureMessage == <<Word("erreur lors du traitement de la facture", "m")>>

\* the two payloads; body is the JSON text of a dict
SuccessPayload(item_id, extracted_data) ==
    [statusCode |-> 200,
     body |-> JsonDumps(PyDict(<< <<K("message"), PyStr(SuccessMessage)>>,
                                  <<K("invoice_id"), PyStr(item_id)>>,
                                  <<K("data"), PyDict(extracted_data)>> >>))]

\* (mutant) the failure payload carries the fixed message only
FailurePayload_MessageOnly(error_text) ==
    [statusCode |-> 500,
     body |-> JsonDumps(PyDict(<< <<K("message"), PyStr(FailureMessage)>> >>))]

FailurePayload(error_text) ==
    [statusCode |-> 500,
     body |-> JsonDumps(PyDict(<< <<K("error"), PyStr(error_text)>>,
                                  <<K("message"), PyStr(FailureMessage)>> >>))]

(***************************************************************************)
(* SpecRecover: structured recovery applied to one answer of the model     *)
(***************************************************************************)
MaxLen == 5          \* the longest answer enumerated token by token
MaxStrLen == 2       \* the longest string value inside a fenced object

SeqsUpTo(S, n) == UNION {[1..k -> S] : k \in 0..n}

\* a string is the sequence of its tokens: a run of letters or of digits is
\* one token, never two in a row
Canonical(s) ==
    \A i \in 1..(Len(s) - 1) : ~(s[i].t = s[i + 1].t /\ s[i].t \in {"word", "num"})

Alphabet == {LB, RB, FENCE, QUOTE, KeyTok("a", "l"), NumTok("1"), Word("x", "l")}

\* objects to put inside a fence: empty, a number, a nested object, and a
\* string of any tokens but a quote
StringBodies == SeqsUpTo({LB, RB, FENCE, Word("x", "l")}, MaxStrLen)
FencedObjects ==
    {<<LB, RB>>,
     <<LB, KeyTok("a", "l"), NumTok("1"), RB>>,
     <<LB, KeyTok("a", "l"), LB, RB, RB>>,
     <<LB, NL, KeyTok("a", "l"), SP, NumTok("1"), NL, RB>>}
    \cup {<<LB, KeyTok("a", "l"), QUOTE>> \o b \o <<QUOTE, RB>> : b \in StringBodies}

\* text outside the fence: none, prose, or JSON-shaped text (with prose)
OuterObject == <<LB, KeyTok("b", "l"), NumTok("2"), RB>>
OuterTexts == {<<>>, <<Word("x", "l")>>, OuterObject, <<Word("x", "l"), SP>> \o OuterObject,
               OuterObject \o <<SP, Word("x", "l")>>}
FenceOpenings == {<<FENCE>>, <<FENCE, Word("json", "l"), NL>>, <<FENCE, NL>>}
FenceClosings == {<<FENCE>>, <<NL, FENCE>>}

\* objects nested one inside the other, left open: as deep as the decoder
\* goes, and one deeper
RECURSIVE Nested(_)
Nested(depth) == IF depth = 0 THEN <<>> ELSE <<LB, KeyTok("a", "l")>> \o Nested(depth - 1)
DeepTexts == {Nested(depth) : depth \in {RecursionLimit, RecursionLimit + 1}}

Unstructured == [pre |-> <<>>, open |-> <<>>, obj |-> <<>>, close |-> <<>>, post |-> <<>>]
Idle == [st |-> "idle", val |-> None]

NormOff == normIn = <<>> /\ normOut = <<>> /\ normOut2 = <<>> /\ normPc = "off"

FixOff == fixData = <<>> /\ fixFilename = <<>> /\ fixOut = Idle

DynamoOff == record = <<>> /\ dynamoItem = Idle /\ restored = Idle

NoRead == [op |-> "none", arg |-> <<>>, n |-> 0]
StoreOff == saves = <<>> /\ issued = {} /\ asked = NoRead /\ found = Idle

BedrockOff ==
    /\ clientConfig = <<>> /\ prompt = <<>> /\ requestBody = Idle /\ responseBody = None
    /\ parsedText = Idle

SharedOff == invocations = <<>> /\ tmpDir = {}
ProvisionOff == clients = <<>> /\ tableStatus = "absent" /\ created = 0

NoResponse == [statusCode |-> 0, body |-> <<>>]
PipelineOff ==
    /\ modelId = <<>> /\ s3Event = None /\ pc = "off" /\ docName = <<>> /\ localPath = <<>>
    /\ tmpFiles = {} /\ pdfText = <<>> /\ responseText = <<>> /\ extractedData = <<>>
    /\ invoices = {} /\ itemId = <<>> /\ response = NoResponse /\ failed = "none"
    /\ errorText = <<>> /\ recovered = <<>> /\ calls = <<>>

InitRecover ==
    /\ SharedOff
    /\ ProvisionOff
    /\ BedrockOff
    /\ StoreOff
    /\ PipelineOff
    /\ NormOff
    /\ FixOff
    /\ DynamoOff
    /\ extracted = Idle
    /\ recovery = Idle
    /\ \/ /\ text \in SeqsUpTo(Alphabet, MaxLen) \cup DeepTexts
          /\ Canonical(text)
          /\ parts = Unstructured
       \/ \E pre \in OuterTexts, post \in OuterTexts, obj \in FencedObjects,
             open \in FenceOpenings, close \in FenceClosings :
            /\ parts = [pre |-> pre, open |-> open, obj |-> obj, close |-> close, post |-> post]
            /\ text = pre \o open \o obj \o close \o post
            /\ Canonical(text)

\* extract_invoice_data, lines 308-321, on the answer
Recover ==
    /\ recovery = Idle
    /\ extracted' = ExtractJsonFromResponse(text)
    /\ recovery' = RecoverRecord(text)
    /\ UNCHANGED <<text, parts, normVars, fixVars, dynamoVars, pipelineVars, storeVars, bedrockVars,
                    sharedVars, provisionVars>>

NextRecover == Recover

SpecRecover == InitRecover /\ [][NextRecover]_vars

\* C1: for every answer of the model, recovery (the three JSON strategies,
\* then the manual fallback) returns a record and never raises.
C1_RecoveryNeverRaises ==
    recovery # Idle =>
        /\ recovery.st = "return"
        /\ recovery.val.t = "dict"

\* C2: when the answer holds a fenced block whose content parses as a JSON
\* object, and JSON-shaped text outside the fence (before or after it),
\* _extract_json_from_response returns the object of the fenced block.
FencedObjectParses == JsonLoads(parts.obj).st = "ok" /\ JsonLoads(parts.obj).val.t = "dict"
HasOuterJson == BraceSpan(parts.pre) # <<>> \/ BraceSpan(parts.post) # <<>>
C2_FencedBlockWins ==
    (extracted # Idle /\ parts # Unstructured /\ FencedObjectParses /\ HasOuterJson)
        => extracted = Return(JsonLoads(parts.obj).val)

(***************************************************************************)
(* SpecNorm: _normalize_field_names applied to a record, and again to its  *)
(* own output                                                              *)
(***************************************************************************)
MaxKeys == 2         \* the most keys of a record with several keys

Casings == {"l", "u", "m"}
UnknownNames == {"confidence", "devise"}
NormValues == {PyStr(<<Word("acme", "u")>>), PyStr(<<Word("orange", "u")>>), None}

\* records with one key: every alias and two unknown names, in every case
SingleKeyRecords ==
    {<< <<Key(a, c), x>> >> : a \in AliasNames \cup UnknownNames, c \in Casings, x \in NormValues}

\* records with several keys: aliases of one field, of another, an unknown
SampleKeys == {Key(a, c) : a \in {"fournisseur", "supplier", "montant", "filename", "confidence"},
                           c \in {"l", "u"}}
DistinctKeys(d) == \A i, j \in DOMAIN d : i # j => d[i][1] # d[j][1]
SeveralKeyRecords == {d \in SeqsUpTo(SampleKeys \X NormValues, MaxKeys) : DistinctKeys(d)}

RecoverOff == text = <<>> /\ parts = Unstructured /\ extracted = Idle /\ recovery = Idle

InitNorm ==
    /\ SharedOff
    /\ ProvisionOff
    /\ BedrockOff
    /\ StoreOff
    /\ PipelineOff
    /\ RecoverOff
    /\ FixOff
    /\ DynamoOff
    /\ normIn \in SingleKeyRecords \cup SeveralKeyRecords
    /\ normOut = <<>>
    /\ normOut2 = <<>>
    /\ normPc = "new"

Normalize ==
    /\ normPc = "new"
    /\ normOut' = NormalizeFieldNames(normIn)
    /\ normPc' = "once"
    /\ UNCHANGED <<normIn, normOut2, recoverVars, fixVars, dynamoVars, pipelineVars, storeVars, bedrockVars,
                    sharedVars, provisionVars>>

NormalizeAgain ==
    /\ normPc = "once"
    /\ normOut2' = NormalizeFieldNames(normOut)
    /\ normPc' = "twice"
    /\ UNCHANGED <<normIn, normOut, recoverVars, fixVars, dynamoVars, pipelineVars, storeVars, bedrockVars,
                    sharedVars, provisionVars>>

NextNorm == Normalize \/ NormalizeAgain

SpecNorm == InitNorm /\ [][NextNorm]_vars

\* C6: normalisation is idempotent: normalising the normalised record
\* gives the normalised record.
C6_NormalizeIdempotent == normPc = "twice" => DictEq(normOut2, normOut)

\* a record with aliases in upper case, a value and an unknown key has been
\* normalised twice
C6_Witness ==
    /\ normPc = "twice"
    /\ \E i \in DOMAIN normIn : normIn[i][1].c = "u" /\ normIn[i][2] # None
    /\ Len(normOut) > Len(FieldMappings)

\* C7: a record that holds only one alias, in any letter case, with value
\* x normalises to a record whose canonical field is x.
C7_AliasCoverage ==
    \A f \in DOMAIN FieldMappings : \A n \in DOMAIN FieldMappings[f][2] : \A c \in Casings :
        (normPc # "new" /\ Len(normIn) = 1 /\ normIn[1][1] = Key(FieldMappings[f][2][n], c))
            => /\ DictHas(normOut, K(FieldMappings[f][1]))
               /\ DictGet(normOut, K(FieldMappings[f][1])) = normIn[1][2]

\* the last alias of the last-but-one field, in upper case, with a value
C7_Witness ==
    /\ normPc = "once"
    /\ normIn = << <<Key("coverage_period", "u"), PyStr(<<Word("acme", "u")>>)>> >>
    /\ DictGet(normOut, K("couverture")) = PyStr(<<Word("acme", "u")>>)

\* C8: a key of the input that no alias matches, letter case aside, is in
\* the output with its spelling and its value.
NoAliasMatches(key) == LowerAtom(key).v \notin AliasNames
C8_UnknownKeysKept ==
    normPc # "new" =>
        \A i \in DOMAIN normIn :
            NoAliasMatches(normIn[i][1]) =>
                \E j \in DOMAIN normOut : normOut[j] = normIn[i]

\* an unknown key in upper case, beside an alias, has been normalised
C8_Witness ==
    /\ normPc = "once"
    /\ Len(normIn) = 2
    /\ \E i \in DOMAIN normIn : normIn[i][1] = Key("confidence", "u") /\ normIn[i][2] # None
    /\ \E i \in DOMAIN normIn : normIn[i][1].v = "supplier"
    /\ \E j \in DOMAIN normOut : normOut[j][1] = Key("confidence", "u")

(***************************************************************************)
(* SpecFix: the supplier corrector applied to a record and a filename      *)
(***************************************************************************)
\* the words of a name spelled in letter case c
InCase(name, c) == [i \in DOMAIN name |-> IF name[i].t = "word" THEN Word(name[i].v, c) ELSE name[i]]
NamesOf(list) == {list[i] : i \in DOMAIN list}

\* suppliers as the model may answer them: a known client (or not), in any
\* letter case, alone or inside a longer text, inside a longer word
OtherNames == {Name1("acme"), Name1("telefonica"), Name1("na"), Name2("pali", "na"),
               <<Word("na", "u"), Word("pali", "u")>>, Name2("emerald", "city")}
Before == {<<>>, <<Word("x", "u")>>, <<Word("ste", "m"), SP>>}
After == {<<>>, <<SP, Word("trading", "u"), SP, Word("espana", "u")>>, <<Word("s", "l")>>}
SupplierTexts ==
    {b \o InCase(n, c) \o a :
        b \in Before, n \in NamesOf(KnownClients) \cup OtherNames, c \in Casings, a \in After}
SupplierValues ==
    {PyStr(s) : s \in SupplierTexts} \cup {None, PyStr(<<>>), PyInt(<<"123">>)}

\* filenames: no known supplier, one, two in either order; in lower or
\* upper case, after a number, inside a longer word
SupplierPairs ==
    {<<x, y>> \in NamesOf(KnownSuppliers) \X {Name1("orange"), Name1("ovh"), Name1("telefonica")} : x # y}
FilenameCores ==
    {InCase(n, c) : n \in NamesOf(KnownSuppliers) \cup {Name1("facture"), Name1("quiksilver")},
                    c \in {"l", "u"}}
    \cup {p[1] \o <<Sym("_")>> \o p[2] : p \in SupplierPairs}
Filenames ==
    {b \o n \o a : b \in {<<>>, <<NumTok("2140"), SP>>}, n \in FilenameCores,
                   a \in {<<Sym(".pdf")>>, <<Word("style", "u"), Sym(".pdf")>>}}

InitFix ==
    /\ SharedOff
    /\ ProvisionOff
    /\ BedrockOff
    /\ StoreOff
    /\ PipelineOff
    /\ RecoverOff
    /\ NormOff
    /\ DynamoOff
    /\ \E fournisseur \in SupplierValues :
          fixData \in {<< <<K("fournisseur"), fournisseur>>, <<K("montant_ht"), PyInt(<<"100">>)>> >>,
                       << <<K("montant_ht"), PyInt(<<"100">>)>>, <<K("fournisseur"), fournisseur>> >>}
    /\ fixFilename \in Filenames
    /\ fixOut = Idle

FixSupplier ==
    /\ fixOut = Idle
    /\ fixOut' = FixSupplierIfNeeded(fixData, fixFilename)
    /\ UNCHANGED <<fixData, fixFilename, recoverVars, normVars, dynamoVars, pipelineVars, storeVars, bedrockVars,
                    sharedVars, provisionVars>>

NextFix == FixSupplier

SpecFix == InitFix /\ [][NextFix]_vars

\* C9: when the supplier contains the name of a known client, in any letter
\* case, the corrector replaces it by a known supplier the upper-cased
\* filename contains, and by None when the filename contains none; the
\* value it had is never kept.
SupplierIn == DictGet(fixData, K("fournisseur"))
HoldsKnownClient ==
    /\ SupplierIn.t = "str"
    /\ \E c \in DOMAIN KnownClients : Contains(Upper(SupplierIn.v), KnownClients[c])
SuppliersInFilename ==
    {n \in NamesOf(KnownSuppliers) : Contains(Upper(fixFilename), n)}
C9_KnownClientReplaced ==
    (fixOut # Idle /\ HoldsKnownClient) =>
        /\ fixOut.st = "return"
        /\ LET supplier == DictGet(fixOut.val.v, K("fournisseur")) IN
           /\ supplier # SupplierIn
           /\ SuppliersInFilename = {} => supplier = None
           /\ SuppliersInFilename # {} => supplier.t = "str" /\ supplier.v \in SuppliersInFilename

\* BOARDRIDERS TRADING ESPANA with 2140 telefonica.pdf gives TELEFONICA
C9_Witness ==
    /\ fixOut # Idle
    /\ SupplierIn = PyStr(<<Word("boardriders", "m"), SP, Word("trading", "u"), SP, Word("espana", "u")>>)
    /\ fixFilename = <<NumTok("2140"), SP, Word("telefonica", "l"), Sym(".pdf")>>
    /\ DictGet(fixOut.val.v, K("fournisseur")) = PyStr(Name1("telefonica"))

(***************************************************************************)
(* SpecDynamo: a record marshalled to the DynamoDB format and back         *)
(***************************************************************************)
\* strings, numbers (as repr() writes them), booleans
Scalars ==
    {PyStr(<<Word("acme", "u")>>), PyStr(<<>>), PyStr(<<NumTok("1500"), Sym("."), NumTok("5")>>),
     PyInt(<<"0">>), PyInt(<<"100">>),
     PyFloat(<<"1500", ".", "5">>), PyFloat(<<"100", ".", "0">>),
     PyFloat(<<"1", "e+", "16">>), PyFloat(<<"1", ".", "5", "e+", "20">>), PyFloat(<<"1", "e-", "07">>),
     PyBool(TRUE), PyBool(FALSE)}
\* homogeneous lists of strings or of numbers
Lists ==
    {PyList(<<>>), PyList(<<PyStr(<<Word("x", "l")>>), PyStr(<<Word("y", "l")>>)>>),
     PyList(<<PyInt(<<"1">>), PyFloat(<<"2", ".", "5">>)>>), PyList(<<PyFloat(<<"1", "e+", "16">>)>>)}
\* nested mappings of these
Mappings ==
    {PyDict(<< <<K("a"), x>> >>) : x \in Scalars \cup Lists}
    \cup {PyDict(<< <<K("a"), PyStr(<<Word("acme", "u")>>)>>, <<K("b"), PyFloat(<<"1500", ".", "5">>)>> >>),
          PyDict(<< <<K("a"), PyDict(<< <<K("b"), PyBool(TRUE)>> >>)>> >>),
          PyDict(<<>>)}
RecordValues == Scalars \cup Lists \cup Mappings
RecordKeys == {K("fournisseur"), K("montant_ht"), K("raw_data")}

\* records of one or two fields
Records ==
    {<< <<k, x>> >> : k \in RecordKeys, x \in RecordValues}
    \cup {<< <<k1, x1>>, <<k2, x2>> >> :
            k1 \in {K("fournisseur")}, k2 \in {K("montant_ht")}, x1 \in RecordValues, x2 \in Scalars \cup Lists}

InitDynamo ==
    /\ SharedOff
    /\ ProvisionOff
    /\ BedrockOff
    /\ StoreOff
    /\ PipelineOff
    /\ RecoverOff
    /\ NormOff
    /\ FixOff
    /\ record \in Records
    /\ dynamoItem = Idle
    /\ restored = Idle

Marshal ==
    /\ dynamoItem = Idle
    /\ dynamoItem' = Return(ConvertToDynamoFormat(record, 1, <<>>))
    /\ UNCHANGED <<record, restored, recoverVars, normVars, fixVars, pipelineVars, storeVars, bedrockVars,
                    sharedVars, provisionVars>>

Unmarshal ==
    /\ dynamoItem # Idle
    /\ restored = Idle
    /\ restored' = ConvertFromDynamoFormat(dynamoItem.val, 1, <<>>)
    /\ UNCHANGED <<record, dynamoItem, recoverVars, normVars, fixVars, pipelineVars, storeVars, bedrockVars,
                    sharedVars, provisionVars>>

NextDynamo == Marshal \/ Unmarshal

SpecDynamo == InitDynamo /\ [][NextDynamo]_vars

\* C10: for every record of strings, numbers, booleans, nested mappings of
\* these and homogeneous lists of strings or of numbers, marshalling and
\* unmarshalling gives back the same keys with the same values and types.
C10_RoundTrip == restored # Idle => restored = Return(PyDict(record))

(***************************************************************************)
(* SpecPipeline: one invocation of process_s3_event                        *)
(***************************************************************************)
ModelIds ==
    {<<Word("anthropic", "l"), Sym("."), Word("claude", "l")>>,
     <<Word("meta", "l"), Sym("."), Word("llama", "l")>>,
     <<Word("amazon", "l"), Sym("."), Word("titan", "l")>>,
     <<Word("ai21", "l"), Sym("."), Word("j2", "l")>>,
     <<Word("cohere", "l"), Sym("."), Word("command", "l")>>,
     <<Word("unknown", "l"), Sym("."), Word("vendor", "l")>>}

\* events: two well formed, three that lack a part
S3Record(key) ==
    PyDict(<< <<K("s3"), PyDict(<< <<K("bucket"), PyDict(<< <<K("name"), PyStr(<<Word("bucket", "l")>>)>> >>)>>,
                                   <<K("object"), PyDict(<< <<K("key"), PyStr(key)>> >>)>> >>)>> >>)
ObjectKeys ==
    {<<Word("invoices", "l"), Sym("/"), NumTok("2140"), Sym("+"), Word("telefonica", "u"), Sym(".pdf")>>,
     <<Word("facture", "l"), Sym(".pdf")>>}
Events ==
    {PyDict(<< <<Key("records", "m"), PyList(<<S3Record(key)>>)>> >>) : key \in ObjectKeys}
    \cup {PyDict(<<>>),
          PyDict(<< <<Key("records", "m"), PyList(<<>>)>> >>),
          PyDict(<< <<Key("records", "m"),
                      PyList(<<PyDict(<< <<K("s3"), PyDict(<< <<K("bucket"),
                          PyDict(<< <<K("name"), PyStr(<<Word("bucket", "l")>>)>> >>)>> >>)>> >>)>>)>> >>)}

PdfTexts == {<<Word("facture", "m"), SP, Word("acme", "u")>>}
Timestamps == {<<Word("2026-11-05t10:00:00", "m")>>, <<Word("2026-11-05t10:00:01", "m")>>}
Uuids == {<<Word("uuid-1", "l")>>, <<Word("uuid-2", "l")>>, <<Word("uuid-3", "l")>>}
\* str(uuid.uuid4()): an identifier no call was given before
FreshIds(given) == Uuids \ given

\* str(e) of an error of a service: one that names the operation, one
\* that every client raises alike
ServiceErrors(operation) ==
    {<<Word("an error occurred when calling", "m"), SP, Word(operation, "m")>>,
     <<Word("unable to locate credentials", "m")>>}

\* answers of the model
StrTok(w, c) == <<QUOTE, Word(w, c), QUOTE>>
Answers ==
    {\* JSON, the canonical names
     <<LB, KeyTok("fournisseur", "l"), SP>> \o StrTok("acme", "u") \o <<Sym(","), SP,
       KeyTok("montant_ht", "l"), SP, NumTok("1500"), Sym("."), NumTok("50"), RB>>,
     \* a fenced block, aliases, a known client, an unknown nested key
     <<Word("voici", "m"), NL, FENCE, Word("json", "l"), NL, LB,
       KeyTok("supplier", "m"), SP, QUOTE, Word("boardriders", "m"), SP, Word("trading", "m"), QUOTE,
       Sym(","), SP, KeyTok("amount", "l"), SP, NumTok("100"), Sym(","), SP,
       KeyTok("confidence", "l"), SP, LB, KeyTok("score", "l"), SP, NumTok("1"), RB, RB, NL, FENCE>>,
     \* prose with labels
     <<Word("fournisseur", "m"), Sym(":"), SP, Word("acme", "u"), NL,
       Word("montant", "m"), Sym(":"), SP, NumTok("1500"), Sym("."), NumTok("50"), SP, Sym("EUR")>>,
     \* nothing
     <<>>,
     \* an empty object
     <<LB, RB>>,
     \* objects nested too deep
     Nested(RecursionLimit + 1),
     \* a supplier that is a number
     <<LB, KeyTok("fournisseur", "l"), SP, NumTok("123"), RB>>,
     \* a known client, a filename of its own and a chrono number
     <<LB, KeyTok("nom_fichier", "l"), SP>> \o StrTok("x", "l") \o <<Sym(","), SP,
       KeyTok("chrono", "l"), SP>> \o StrTok("x", "l") \o <<Sym(","), SP,
       KeyTok("fournisseur", "l"), SP>> \o StrTok("quiksilver", "u") \o <<RB>>}

\* the response body of a provider family that holds an answer
BodyFor(model_type, answer) ==
    CASE model_type \in {"anthropic", "unknown"} -> PyDict(<< <<K("completion"), PyStr(answer)>> >>)
      [] model_type = "meta" -> PyDict(<< <<K("generation"), PyStr(answer)>> >>)
      [] model_type = "amazon" ->
            PyDict(<< <<K("results"), PyList(<<PyDict(<< <<Key("outputtext", "m"), PyStr(answer)>> >>)>>)>> >>)
      [] model_type = "ai21" ->
            PyDict(<< <<K("completions"),
                        PyList(<<PyDict(<< <<K("data"), PyDict(<< <<K("text"), PyStr(answer)>> >>)>> >>)>>)>> >>)
      [] model_type = "cohere" ->
            PyDict(<< <<K("generations"), PyList(<<PyDict(<< <<K("text"), PyStr(answer)>> >>)>>)>> >>)

\* and two bodies of another shape: the messages shape, a null completion
ResponseBodies(model_type) ==
    {BodyFor(model_type, answer) : answer \in Answers}
    \cup {PyDict(<< <<K("content"), PyList(<<PyDict(<< <<K("text"), PyStr(<<LB, RB>>)>> >>)>>)>> >>),
          PyDict(<< <<K("completion"), None>>, <<K("generation"), None>> >>)}

\* what process_s3_event calls outside itself: S3, the text extractor, the
\* model, the table, the file system
Operations == {"download_file", "extract_text", "invoke_model", "put_item", "remove"}
Called(operation) == calls' = [calls EXCEPT ![operation] = @ + 1]

InitPipeline ==
    /\ SharedOff
    /\ ProvisionOff
    /\ BedrockOff
    /\ StoreOff
    /\ RecoverOff
    /\ NormOff
    /\ FixOff
    /\ DynamoOff
    /\ modelId \in ModelIds
    /\ s3Event \in Events
    /\ pc = "start"
    /\ docName = <<>>
    /\ localPath = <<>>
    /\ tmpFiles = {}
    /\ pdfText = <<>>
    /\ responseText = <<>>
    /\ extractedData = <<>>
    /\ invoices = {}
    /\ itemId = <<>>
    /\ response = NoResponse
    /\ failed = "none"
    /\ errorText = <<>>
    /\ recovered = <<>>
    /\ calls = [operation \in Operations |-> 0]

otherVars == <<recoverVars, normVars, fixVars, dynamoVars, storeVars, bedrockVars, sharedVars, provisionVars,
              modelId, s3Event>>

\* (mutant) a step that raised is tried a second time
Fail_RetriesOnce(stage, name, error_text) ==
    IF \A operation \in DOMAIN calls : calls[operation] = 0
    THEN /\ failed' = failed
         /\ errorText' = error_text
         /\ response' = response
         /\ pc' = pc
    ELSE /\ failed' = stage
         /\ errorText' = error_text
         /\ response' = FailurePayload(error_text)
         /\ pc' = "done"

\* (mutant) the exception is recorded and the call goes on to save
Fail_GoesOn(stage, name, error_text) ==
    /\ failed' = stage
    /\ errorText' = error_text
    /\ response' = response
    /\ pc' = IF pc = "cleanup" THEN "done" ELSE "save"

\* an exception raised inside the try of process_s3_event: the except
\* clause returns the failure payload
Fail(stage, name, error_text) ==
    /\ failed' = stage
    /\ errorText' = error_text
    /\ IF Catches(name)
       THEN response' = FailurePayload(error_text) /\ pc' = "done"
       ELSE response' = response /\ pc' = "raised"

\* lines 229-238
ParseEvent ==
    /\ pc = "start"
    /\ \E bucket \in {EventBucket(s3Event)}, key \in {EventKey(s3Event)} :
           IF bucket.st = "raise"
           THEN Fail("event", bucket.val.v, ExceptionText(bucket.val.v, bucket.key))
                /\ UNCHANGED <<docName, localPath>>
           ELSE IF key.st = "raise"
           THEN Fail("event", key.val.v, ExceptionText(key.val.v, key.key))
                /\ UNCHANGED <<docName, localPath>>
           ELSE /\ docName' = PathName(UnquotePlus(key.val.v))
                /\ localPath' = LocalPath(PathName(UnquotePlus(key.val.v)))
                /\ pc' = "download"
                /\ UNCHANGED <<response, failed, errorText>>
    /\ UNCHANGED <<otherVars, tmpFiles, pdfText, responseText, extractedData, invoices, itemId,
                    recovered, calls>>

\* line 240: the download writes the working copy, or raises
Download ==
    /\ pc = "download"
    /\ Called("download_file")
    /\ \/ /\ tmpFiles' = tmpFiles \cup {localPath}
          /\ pc' = "extract_text"
          /\ UNCHANGED <<response, failed, errorText>>
       \/ /\ \E error_text \in ServiceErrors("download_file") :
                Fail("download", "ClientError", error_text)
          /\ UNCHANGED tmpFiles
    /\ UNCHANGED <<otherVars, docName, localPath, pdfText, responseText, extractedData, invoices, itemId,
                    recovered>>

\* if not pdf_text
NoText_Never(pdf_text) == FALSE

NoText(pdf_text) == ~Truthy(PyStr(pdf_text))

\* extract_from_pdf, lines 60-63: the extractor gives a text or the empty
\* text, or raises; the empty text is refused with a ValueError
ExtractText ==
    /\ pc = "extract_text"
    /\ Called("extract_text")
    /\ \/ /\ localPath \in tmpFiles
          /\ \E pdf_text \in PdfTexts \cup {<<>>} :
                /\ pdfText' = pdf_text
                /\ IF NoText(pdf_text)
                   THEN Fail("text_extraction", "ValueError", ExceptionText("ValueError", localPath))
                   ELSE /\ pc' = "invoke"
                        /\ UNCHANGED <<response, failed, errorText>>
       \/ /\ Fail("text_extraction", "PdfReadError", ExceptionText("PdfReadError", <<>>))
          /\ UNCHANGED pdfText
    /\ UNCHANGED <<otherVars, docName, localPath, tmpFiles, responseText, extractedData, invoices, itemId,
                    recovered>>

\* extract_from_pdf, line 70: extract_invoice_data calls the model, parses
\* the response and recovers the record
InvokeModel ==
    /\ pc = "invoke"
    /\ Called("invoke_model")
    /\ \/ /\ \E error_text \in ServiceErrors("invoke_model") :
                Fail("model_invocation", "ClientError", error_text)
          /\ UNCHANGED <<responseText, extractedData, recovered>>
       \/ \E response_body \in ResponseBodies(DetectModelType(modelId)) :
          \E response_text \in {ParseResponse(DetectModelType(modelId), response_body)} :
            IF response_text.st = "raise"
            THEN /\ Fail("model_invocation", response_text.val.v,
                         ExceptionText(response_text.val.v, <<>>))
                 /\ UNCHANGED <<responseText, extractedData, recovered>>
            ELSE \E outcome \in {RecoverRecord(response_text.val.v)} :
                    /\ responseText' = response_text.val.v
                    /\ IF outcome.st = "raise"
                       THEN /\ Fail("recovery", outcome.val.v,
                                    ExceptionText(outcome.val.v, <<>>))
                            /\ UNCHANGED <<extractedData, recovered>>
                       ELSE /\ extractedData' = outcome.val.v
                            /\ recovered' = outcome.val.v
                            /\ pc' = "fix"
                            /\ UNCHANGED <<response, failed, errorText>>
    /\ UNCHANGED <<otherVars, docName, localPath, tmpFiles, pdfText, invoices, itemId>>

\* extract_from_pdf, lines 73-79: the corrector, then the metadata
CorrectAndAnnotate ==
    /\ pc = "fix"
    /\ \E fixed \in {FixSupplierIfNeeded(extractedData, docName)} :
       IF fixed.st = "raise"
       THEN /\ Fail("correction", fixed.val.v, ExceptionText(fixed.val.v, <<>>))
            /\ UNCHANGED extractedData
       ELSE /\ \E now \in Timestamps :
                  extractedData' = AddMetadata(fixed.val.v, docName, localPath, now)
            /\ pc' = "save"
            /\ UNCHANGED <<response, failed, errorText>>
    /\ UNCHANGED <<otherVars, docName, localPath, tmpFiles, pdfText, responseText, invoices, itemId,
                    recovered, calls>>

\* line 247: save_invoice_data writes one item under a fresh id, or raises
Save ==
    /\ pc = "save"
    /\ Called("put_item")
    /\ \/ /\ \E error_text \in ServiceErrors("put_item") : Fail("save", "ClientError", error_text)
          /\ UNCHANGED <<invoices, itemId>>
       \/ \E invoice_id \in Uuids, created_at \in Timestamps :
          \E dynamo_item \in {ConvertToDynamoFormat(
                                    InvoiceItem(extractedData, invoice_id, created_at), 1, <<>>)} :
            /\ Accepts(dynamo_item)
            /\ invoices' = PutItem(invoices, dynamo_item)
            /\ itemId' = invoice_id
            /\ pc' = "cleanup"
            /\ UNCHANGED <<response, failed, errorText>>
    /\ UNCHANGED <<otherVars, docName, localPath, tmpFiles, pdfText, responseText, extractedData,
                    recovered>>

\* lines 250-260: the working copy is removed if it is there, and the
\* success payload returned; os.remove may raise
CleanupAndRespond ==
    /\ pc = "cleanup"
    /\ IF localPath \in tmpFiles THEN Called("remove") ELSE UNCHANGED calls
    /\ \/ /\ tmpFiles' = tmpFiles \ {localPath}
          /\ response' = SuccessPayload(itemId, extractedData)
          /\ pc' = "done"
          /\ UNCHANGED <<failed, errorText>>
       \/ /\ localPath \in tmpFiles
          /\ Fail("cleanup", "OSError", ExceptionText("OSError", <<>>))
          /\ UNCHANGED tmpFiles
    /\ UNCHANGED <<otherVars, docName, localPath, pdfText, responseText, extractedData, invoices, itemId,
                    recovered>>

NextPipeline ==
    \/ ParseEvent
    \/ Download
    \/ ExtractText
    \/ InvokeModel
    \/ CorrectAndAnnotate
    \/ Save
    \/ CleanupAndRespond

SpecPipeline == InitPipeline /\ [][NextPipeline]_vars

\* what the caller reads in the payload: json.loads of its body
ResponseBody == JsonLoads(response.body).val
\* the items of the table stored under the id the payload names, and the
\* record each one holds in its audit payload (raw_data)
StoredItems == {i \in invoices : DictGet(i, K("invoice_id")) = Attr("S", itemId)}
StoredRecord(i) == JsonLoads(DictGet(i, K("raw_data")).v).val
HasCanonicalFields(rec) == rec.t = "dict" /\ \A f \in CanonicalFields : DictHas(rec.v, K(f))

\* C3: whenever the payload has statusCode 200, the record it returns and
\* the record persisted under the returned id both hold every canonical
\* field key (the value may be null), whether the record came from JSON and
\* normalisation or from the manual fallback.
C3_SuccessRecordComplete ==
    response.statusCode = 200 =>
        /\ HasCanonicalFields(DictGet(ResponseBody.v, K("data")))
        /\ StoredItems # {}
        /\ \A i \in StoredItems : HasCanonicalFields(StoredRecord(i))

\* a success whose record the manual fallback produced from labelled prose
C3_Witness ==
    /\ response.statusCode = 200
    /\ ~Truthy(ExtractJsonFromResponse(responseText).val)
    /\ DictGet(extractedData, K("fournisseur")) = PyStr(<<Word("acme", "u")>>)
    /\ DictGet(extractedData, K("chrono")) = None

\* C4: process_s3_event never lets an exception out, and what it returns
\* is one of two payloads: statusCode 200 with the id save_invoice_data
\* returned and the extracted record, exactly when no step raised; or
\* statusCode 500 with an error text and the failure message, exactly when
\* a step raised.  Nothing is returned before the invocation ends.
C4_TwoPayloads ==
    /\ pc # "raised"
    /\ pc # "done" => response = NoResponse
    /\ pc = "done" =>
        \/ /\ response.statusCode = 200
           /\ failed = "none"
           /\ DictGet(ResponseBody.v, K("invoice_id")) = PyStr(itemId)
           /\ StoredItems # {}
           /\ DictGet(ResponseBody.v, K("data")) = PyDict(extractedData)
        \/ /\ response.statusCode = 500
           /\ failed # "none"
           /\ DictHas(ResponseBody.v, K("error"))
           /\ DictGet(ResponseBody.v, K("message")) = PyStr(FailureMessage)

\* the corrector raised (a supplier that is a number has no upper()), which
\* is no error of an AWS client, and the invocation ended with the 500
C4_Witness ==
    /\ pc = "done"
    /\ failed = "correction"
    /\ response.statusCode = 500

MaxSaves == 2
MaxReads == 1
Callers == 1 .. MaxSaves

DateOf(y, m, d) == <<NumTok(y), Sym("-"), NumTok(m), Sym("-"), NumTok(d)>>
InvoiceNumber(n) == <<Word("fac", "u"), Sym("-"), NumTok(n)>>

\* the records saved, in an order (the calls are interchangeable, so the
\* first call takes the earlier record): with every field, with a null field, with an
\* invoice_id of the caller's own, with a date written the other way
\* round, with a supplier that is a number
SavedRecords ==
    << << <<K("fournisseur"), PyStr(<<Word("acme", "u")>>)>>,
        <<K("montant_ht"), PyFloat(<<"1500", ".", "5">>)>>,
        <<K("numero_facture"), PyStr(InvoiceNumber("001"))>>,
        <<K("date_facture"), PyStr(DateOf("2024", "01", "15"))>> >>,
     << <<K("invoice_id"), PyStr(<<Word("uuid-1", "l")>>)>>,
        <<K("fournisseur"), PyStr(<<Word("acme", "u")>>)>>,
        <<K("numero_facture"), None>>,
        <<K("date_facture"), PyStr(DateOf("2024", "01", "07"))>> >>,
     << <<K("fournisseur"), None>>,
        <<K("montant_ht"), PyFloat(<<"1", "e+", "16">>)>>,
        <<K("numero_facture"), PyStr(InvoiceNumber("001"))>>,
        <<K("date_facture"), None>>,
        <<K("lignes"), PyList(<<PyDict(<< <<K("ht"), PyInt(<<"100">>)>> >>)>>)>> >>,
     << <<K("fournisseur"), PyStr(<<Word("globex", "u")>>)>>,
        <<K("numero_facture"), PyStr(InvoiceNumber("100"))>>,
        <<K("date_facture"), PyStr(<<NumTok("15"), Sym("/"), NumTok("01"), Sym("/"), NumTok("2024")>>)>> >>,
     << <<K("fournisseur"), PyStr(<<Word("acme", "l")>>)>>,
        <<K("date_facture"), PyStr(DateOf("2024", "01", "20"))>> >>,
     << <<K("fournisseur"), PyInt(<<"123">>)>>,
        <<K("date_facture"), PyStr(DateOf("2024", "01", "15"))>> >> >>

\* what is asked of the table
AskedSuppliers == {<<Word("acme", "u")>>, <<Word("globex", "u")>>}
AskedNumbers == {InvoiceNumber("001"), InvoiceNumber("500")}
AskedRanges ==
    {<<DateOf("2024", "01", "07"), DateOf("2024", "01", "15")>>,
     <<DateOf("2024", "01", "15"), DateOf("2024", "07", "01")>>,
     <<DateOf("2024", "01", "16"), DateOf("2024", "01", "01")>>}

NewCall(r) == [pc |-> "start", rec |-> r, id |-> <<>>, item |-> <<>>, writes |-> 0]

InitStore ==
    /\ SharedOff
    /\ ProvisionOff
    /\ BedrockOff
    /\ RecoverOff
    /\ NormOff
    /\ FixOff
    /\ DynamoOff
    /\ PipelineOff
    /\ \E choice \in [Callers -> DOMAIN SavedRecords] :
        /\ \A c \in Callers, d \in Callers : c < d => choice[c] <= choice[d]
        /\ saves = [c \in Callers |-> NewCall(SavedRecords[choice[c]])]
    /\ issued = {}
    /\ asked = NoRead
    /\ found = Idle

storeFrame == <<recoverVars, normVars, fixVars, dynamoVars, bedrockVars, sharedVars, provisionVars, modelId, s3Event, pc, docName,
                localPath, tmpFiles, pdfText, responseText, extractedData, itemId, response,
                failed, errorText, recovered, calls>>

\* lines 161-195: the id, then the item with its timestamp (no read looks
\* at created_at: the calls are given the same one)
PrepareItem(c) ==
    /\ saves[c].pc = "start"
    /\ \E invoice_id \in FreshIds(issued), created_at \in {CHOOSE now \in Timestamps : TRUE} :
        /\ saves' = [saves EXCEPT
                        ![c].id = invoice_id,
                        ![c].item = ConvertToDynamoFormat(
                                        InvoiceItem(saves[c].rec, invoice_id, created_at), 1, <<>>),
                        ![c].pc = "item"]
        /\ issued' = issued \cup {invoice_id}
    /\ UNCHANGED <<invoices, asked, found, storeFrame>>

\* lines 198-211: put_item writes the item and the call returns its id, or
\* put_item raises and the call raises
PutInvoice(c) ==
    /\ saves[c].pc = "item"
    /\ \/ /\ Accepts(saves[c].item)
          /\ invoices' = PutItem(invoices, saves[c].item)
          /\ saves' = [saves EXCEPT ![c].writes = @ + 1, ![c].pc = "done"]
       \/ /\ saves' = [saves EXCEPT ![c].pc = "failed"]
          /\ UNCHANGED invoices
    /\ UNCHANGED <<issued, asked, found, storeFrame>>

Read(op, arg, result) ==
    /\ asked.n < MaxReads
    /\ asked' = [op |-> op, arg |-> arg, n |-> asked.n + 1]
    /\ found' = result
    /\ UNCHANGED <<invoices, saves, issued, storeFrame>>

GetById == \E invoice_id \in Uuids : Read("get", <<invoice_id>>, GetInvoice(invoices, invoice_id))

AskSupplier == \E supplier \in AskedSuppliers :
    Read("supplier", <<supplier>>, QueryBySupplier(invoices, supplier))

AskInvoiceNumber == \E invoice_number \in AskedNumbers :
    Read("number", <<invoice_number>>, QueryByInvoiceNumber(invoices, invoice_number))

AskDateRange == \E range \in AskedRanges :
    Read("dates", range, QueryByDateRange(invoices, range[1], range[2]))

NextStore ==
    \/ \E c \in Callers : PrepareItem(c)
    \/ \E c \in Callers : PutInvoice(c)
    \/ GetById
    \/ AskSupplier
    \/ AskInvoiceNumber
    \/ AskDateRange

SpecStore == InitStore /\ [][NextStore]_vars

\* the calls that have returned an id
Returned == {c \in Callers : saves[c].pc = "done"}
\* the field of a record, None when it has none
FieldOf(r, f) == DictGetOr(r, K(f), None)
\* the items of a result are those of the calls cs: the id of each call
\* with its record as the decoded audit payload, and no other
ItemsOf(result, cs) ==
    /\ result.st = "return"
    /\ result.val.t = "items"
    /\ Cardinality(result.val.v) = Cardinality(cs)
    /\ {<<DictGet(x.v, K("invoice_id")), DictGet(x.v, K("parsed_data"))>> : x \in result.val.v}
        = {<<PyStr(saves[c].id), PyDict(saves[c].rec)>> : c \in cs}

C12_OneWritePerSave ==
    /\ \A c \in Callers :
        /\ saves[c].writes = (IF c \in Returned THEN 1 ELSE 0)
        /\ saves[c].pc # "start" =>
            /\ saves[c].id \in issued
            /\ DictGet(saves[c].item, K("invoice_id")) = Attr("S", saves[c].id)
            /\ \A d \in Callers \ {c} : saves[d].pc # "start" => saves[d].id # saves[c].id
        /\ c \in Returned => saves[c].item \in invoices
    /\ Cardinality(invoices) = Cardinality(Returned)

\* two calls returned; the record of one carries as its own invoice_id the
\* very id generated for the other, and was written under another id
C12_Witness ==
    /\ Returned = Callers
    /\ \E c \in Callers, d \in Callers :
        /\ c # d
        /\ FieldOf(saves[c].rec, "invoice_id") = PyStr(saves[d].id)
        /\ saves[c].id # saves[d].id
    /\ Cardinality(invoices) = MaxSaves

Segments ==
    << <<Word("facture", "m"), SP, Word("fac", "u"), Sym("-"), NumTok("2024"), Sym("-"), NumTok("001")>>,
       <<Word("fournisseur", "m"), Sym(":"), SP, Word("acme", "u")>>,
       <<Word("montant", "m"), Sym(":"), SP, NumTok("1500"), Sym("."), NumTok("50"), Sym("EUR")>>,
       <<Word("date", "m"), Sym(":"), SP, NumTok("2024"), Sym("-"), NumTok("01"), Sym("-"), NumTok("15")>> >>

\* the parts chosen, in the order chosen, with a separator between two
RECURSIVE JoinSegments(_, _)
JoinSegments(order, sep) ==
    IF Len(order) = 1 THEN Segments[order[1]]
    ELSE Segments[order[1]] \o sep \o JoinSegments(Tail(order), sep)

\* every choice of parts, each at most once, on one line or one per line
ProseTexts ==
    {JoinSegments(order, sep) :
        order \in {o \in SeqsUpTo(DOMAIN Segments, Len(Segments)) :
                        o # <<>> /\ \A i \in DOMAIN o, j \in DOMAIN o : i # j => o[i] # o[j]},
        sep \in {<<Sym(","), SP>>, <<NL>>}}

\* "Facture FAC-2024-001, Fournisseur: ACME, Montant: 1500.50EUR, Date: 2024-01-15"
SampleLine == JoinSegments(<<1, 2, 3, 4>>, <<Sym(","), SP>>)

InitManual ==
    /\ SharedOff
    /\ ProvisionOff
    /\ BedrockOff
    /\ StoreOff
    /\ PipelineOff
    /\ NormOff
    /\ FixOff
    /\ DynamoOff
    /\ text \in ProseTexts
    /\ parts = Unstructured
    /\ extracted = Idle
    /\ recovery = Idle

SpecManual == InitManual /\ [][NextRecover]_vars

\* C15: for the sample line, which holds no JSON, the manual fallback
\* gives the invoice number FAC-2024-001, the supplier ACME and nothing
\* more, the amount as the number 1500.50, and a date of the date pattern.
C15_SampleLine ==
    (text = SampleLine /\ recovery # Idle) =>
        /\ extracted = Return(None)
        /\ recovery.st = "return"
        /\ DictGet(recovery.val.v, K("numero_facture"))
                = PyStr(<<Word("fac", "u"), Sym("-"), NumTok("2024"), Sym("-"), NumTok("001")>>)
        /\ DictGet(recovery.val.v, K("fournisseur")) = PyStr(<<Word("acme", "u")>>)
        /\ DictGet(recovery.val.v, K("montant_ht")) = PyFloat(<<"1500", ".", "5">>)
        /\ DictGet(recovery.val.v, K("date_facture")).t = "str"
        /\ DateShapeAt(DictGet(recovery.val.v, K("date_facture")).v, 1)

(***************************************************************************)
(* SpecBedrock: the request body built for a model, and the text taken     *)
(* from the body of its response                                           *)
(***************************************************************************)
\* "unknown.vendor.model-v1"
UnknownVendorModel ==
    <<Word("unknown", "l"), Sym("."), Word("vendor", "l"), Sym("."), Word("model", "l"),
      Sym("-"), Word("v", "l"), NumTok("1")>>

ClientConfigs ==
    [model_id : ModelIds \cup {UnknownVendorModel,
                               <<Word("anthropic", "u"), Sym("."), Word("claude", "m")>>},
     max_tokens : {PyInt(<<"1000">>), PyInt(<<"500">>)},
     temperature : {PyFloat(<<"0", ".", "1">>), PyFloat(<<"0", ".", "7">>)}]

Prompts == {<<Word("texte de facture", "m")>>, <<>>}

\* a text with white space around it
ReplyText == <<SP, LB, KeyTok("a", "l"), SP, NumTok("1"), RB, NL>>

\* BEDROCK_MODEL_ID when the environment names none: an anthropic model
DefaultModelId == <<Word("anthropic", "l"), Sym("."), Word("claude", "l")>>

\* an answer that is a JSON object with two of the canonical fields
AnswerObject ==
    <<LB, KeyTok("fournisseur", "l"), SP>> \o StrTok("test corp", "m") \o <<Sym(","), SP,
      KeyTok("montant_ht", "l"), SP, NumTok("1000"), Sym("."), NumTok("0"), RB>>

\* the messages shape: the answer is the text of the first item of content
ContentBody(items) == PyDict(<< <<K("content"), PyList(items)>> >>)
ContentText(answer) == ContentBody(<<PyDict(<< <<K("text"), PyStr(answer)>> >>)>>)

\* decoded bodies: each family's shape, and bodies of no family's shape
\* (no key, an empty list, a null, a first item without the text, the
\* messages shape, a body that is a list or null)
DecodedBodies ==
    {BodyFor(model_type, ReplyText) :
        model_type \in {ProviderTokens[n] : n \in DOMAIN ProviderTokens} \cup {"unknown"}}
    \cup {PyDict(<<>>),
          PyDict(<< <<K("completions"), PyList(<<>>)>> >>),
          PyDict(<< <<K("generations"), PyList(<<>>)>> >>),
          PyDict(<< <<K("results"), PyList(<<>>)>> >>),
          PyDict(<< <<K("completion"), None>> >>),
          PyDict(<< <<K("generation"), None>> >>),
          PyDict(<< <<K("results"), PyList(<<PyDict(<<>>)>>)>> >>),
          PyDict(<< <<K("completions"), PyList(<<PyDict(<< <<K("data"), None>> >>)>>)>> >>),
          ContentText(ReplyText),
          ContentText(AnswerObject),
          ContentBody(<<>>),
          BodyFor("anthropic", AnswerObject),
          PyList(<<>>),
          None}

InitBedrock ==
    /\ SharedOff
    /\ ProvisionOff
    /\ RecoverOff
    /\ NormOff
    /\ FixOff
    /\ DynamoOff
    /\ PipelineOff
    /\ StoreOff
    /\ clientConfig \in ClientConfigs
    /\ prompt \in Prompts
    /\ requestBody = Idle
    /\ responseBody = None
    /\ parsedText = Idle

bedrockFrame == <<text, parts, extracted, normVars, fixVars, dynamoVars, pipelineVars, storeVars, sharedVars,
                  provisionVars,
                  clientConfig, prompt>>

\* extract_invoice_data, line 293
BuildRequest ==
    /\ requestBody = Idle
    /\ requestBody' = Return(PyDict(CreateRequestBody(DetectModelType(clientConfig.model_id),
                                        prompt, clientConfig.max_tokens, clientConfig.temperature)))
    /\ UNCHANGED <<responseBody, parsedText, recovery, bedrockFrame>>

\* extract_invoice_data, lines 302-303, on the body the model sent
ReadResponse ==
    /\ requestBody # Idle
    /\ parsedText = Idle
    /\ \E response_body \in DecodedBodies :
        /\ responseBody' = response_body
        /\ parsedText' = ParseResponse(DetectModelType(clientConfig.model_id), response_body)
    /\ UNCHANGED <<requestBody, recovery, bedrockFrame>>

\* extract_invoice_data, lines 308-321: the record recovered from the text;
\* what _parse_response raised is raised again (lines 328-330)
RecoverResponse ==
    /\ parsedText # Idle
    /\ recovery = Idle
    /\ recovery' = IF parsedText.st = "raise" THEN parsedText ELSE RecoverRecord(parsedText.val.v)
    /\ UNCHANGED <<requestBody, responseBody, parsedText, bedrockFrame>>

NextBedrock == BuildRequest \/ ReadResponse \/ RecoverResponse

SpecBedrock == InitBedrock /\ [][NextBedrock]_vars

\* C16: for a model id that holds no provider token, the request body is
\* built without an exception and has the fields of the body built for
\* the default family, the one of the completion field (anthropic); built
\* from the same prompt, token limit and temperature, the two bodies are
\* the same.
C16_UnknownAsDefault ==
    (requestBody # Idle /\ DetectModelType(clientConfig.model_id) = "unknown") =>
        LET default == CreateRequestBody("anthropic", prompt, clientConfig.max_tokens,
                                         clientConfig.temperature)
        IN  /\ requestBody.st = "return"
            /\ DictKeys(requestBody.val.v) = DictKeys(default)
            /\ DictEq(requestBody.val.v, default)

\* the body has the shape of the family: the text is where the family
\* puts it
HasText(x, key) == x.t = "dict" /\ DictHas(x.v, key) /\ DictGet(x.v, key).t = "str"
FirstHasText(x, list_key, key) ==
    /\ x.t = "dict"
    /\ DictHas(x.v, list_key)
    /\ DictGet(x.v, list_key).t = "list"
    /\ Len(DictGet(x.v, list_key).v) > 0
    /\ HasText(DictGet(x.v, list_key).v[1], key)
KnownShape(model_type, response_body) ==
    CASE model_type = "anthropic" -> HasText(response_body, K("completion"))
      [] model_type = "meta" -> HasText(response_body, K("generation"))
      [] model_type = "amazon" -> FirstHasText(response_body, K("results"), Key("outputtext", "m"))
      [] model_type = "ai21" ->
            /\ response_body.t = "dict"
            /\ DictHas(response_body.v, K("completions"))
            /\ DictGet(response_body.v, K("completions")).t = "list"
            /\ Len(DictGet(response_body.v, K("completions")).v) > 0
            /\ DictGet(response_body.v, K("completions")).v[1].t = "dict"
            /\ DictHas(DictGet(response_body.v, K("completions")).v[1].v, K("data"))
            /\ HasText(DictGet(DictGet(response_body.v, K("completions")).v[1].v, K("data")), K("text"))
      [] model_type = "cohere" -> FirstHasText(response_body, K("generations"), K("text"))
      [] OTHER -> \E k \in TextKeys : HasText(response_body, k)

\* C17: for every family and every decoded body, _parse_response returns
\* and does not raise; for a body that has not the shape of the family (a
\* missing key, an empty list of completions, generations or results) it
\* returns the body written out as a string.
C17_ParseNeverRaises ==
    parsedText # Idle =>
        /\ parsedText.st = "return"
        /\ ~KnownShape(DetectModelType(clientConfig.model_id), responseBody) =>
                parsedText = Return(PyStr(Repr(responseBody)))

\* the items of the table written by this invocation, once save_invoice_data
\* has returned
Written == IF itemId = <<>> THEN {} ELSE StoredItems

\* C18 as stated: the audit payload (raw_data) stored for a document is
\* the output of structured recovery, whatever the corrector and the
\* metadata step did to the record afterwards.
C18_AuditIsRecoveryOutput ==
    \A i \in Written : StoredRecord(i) = PyDict(recovered)

\* C18 as amended: the audit payload stored for a document is the record
\* handed to save_invoice_data, which is the output of structured recovery
\* after the corrector and the metadata step: with the supplier the
\* corrector put, and with filename, extraction_date and pdf_path.
C18_AuditIsSavedRecord ==
    \A i \in Written :
        /\ StoredRecord(i) = PyDict(extractedData)
        /\ \E now \in Timestamps :
            extractedData =
                AddMetadata(FixSupplierIfNeeded(recovered, docName).val.v, docName, localPath, now)

\* the corrector replaced the supplier of the recovery output, and the
\* audit payload holds the supplier it put
C18_Witness ==
    /\ Written # {}
    /\ \A i \in Written :
        /\ Truthy(DictGet(recovered, K("fournisseur")))
        /\ DictGet(StoredRecord(i).v, K("fournisseur")) # DictGet(recovered, K("fournisseur"))
        /\ DictHas(StoredRecord(i).v, K("extraction_date"))

\* C19: the item stored for the record the pipeline hands to
\* save_invoice_data has the generated id, the audit payload, and a column
\* of its own for each canonical field of the record that is not null
\* (fournisseur, montant_ht, numero_facture, date_facture, chrono,
\* couverture, nom_fichier), holding the value of the field.
C19_ColumnPerField ==
    \A i \in Written :
        /\ DictGet(i, K("invoice_id")) = Attr("S", itemId)
        /\ DictHas(i, K("raw_data"))
        /\ \A f \in CanonicalFields :
            DictGet(extractedData, K(f)) # None =>
                /\ DictHas(i, K(f))
                /\ <<K(f), DictGet(i, K(f))>>
                    = ConvertToDynamoFormat(<< <<K(f), DictGet(extractedData, K(f))>> >>, 1, <<>>)[1]

\* the text source was called for the document and returned (it did not
\* raise) a text that is empty
YieldedNoText ==
    /\ calls["extract_text"] > 0
    /\ errorText # ExceptionText("PdfReadError", <<>>)
    /\ pdfText = <<>>

\* C20: once the text source has returned no text for the document,
\* extract_from_pdf has raised the ValueError "Aucun texte extrait du PDF",
\* the event is answered with the failure payload of that error, the model
\* was not invoked and nothing was written to the table.
C20_NoTextNoModelNoSave ==
    YieldedNoText =>
        /\ failed = "text_extraction"
        /\ errorText = ExceptionText("ValueError", localPath)
        /\ pc = "done"
        /\ response = FailurePayload(errorText)
        /\ calls["invoke_model"] = 0
        /\ calls["put_item"] = 0
        /\ responseText = <<>>
        /\ invoices = {}
        /\ itemId = <<>>

C20_Witness ==
    /\ YieldedNoText
    /\ pc = "done"
    /\ calls["download_file"] = 1
    /\ calls["extract_text"] = 1
    /\ localPath \in tmpFiles

(***************************************************************************)
(* SpecShared: calls of process_s3_event that run side by side on one      *)
(* host, each on a document of its own.  What the calls have in common is  *)
(* /tmp: the working copy of an object is /tmp/<name of the key>.          *)
(***************************************************************************)
MaxInvocations == 2
Invokers == 1 .. MaxInvocations

\* object keys: two of the same name under two prefixes, one of another name
SharedKeys ==
    {<<Word("a", "l"), Sym("/"), Word("facture", "l"), Sym(".pdf")>>,
     <<Word("b", "l"), Sym("/"), Word("facture", "l"), Sym(".pdf")>>,
     <<Word("a", "l"), Sym("/"), Word("avoir", "l"), Sym(".pdf")>>}

NewInvocation(key) ==
    [key |-> key, pc |-> "start", local_path |-> <<>>, read |-> <<>>, saved |-> FALSE,
     statusCode |-> 0]

InitShared ==
    /\ RecoverOff
    /\ NormOff
    /\ FixOff
    /\ DynamoOff
    /\ PipelineOff
    /\ StoreOff
    /\ BedrockOff
    /\ ProvisionOff
    /\ \E keys \in [Invokers -> SharedKeys] :
        /\ \A i \in Invokers, j \in Invokers : i # j => keys[i] # keys[j]
        /\ invocations = [i \in Invokers |-> NewInvocation(keys[i])]
    /\ tmpDir = {}

sharedFrame == <<recoverVars, normVars, fixVars, dynamoVars, pipelineVars, storeVars, bedrockVars,
                 provisionVars>>

\* the files of /tmp at a path, and /tmp once a file was written or removed
FilesAt(path) == {f \in tmpDir : f.path = path}
WriteFile(path, key) == (tmpDir \ FilesAt(path)) \cup {[path |-> path, of |-> key]}
RemoveFile(path) == tmpDir \ FilesAt(path)

\* the except clause: the call returns the failure payload
Returns500(i) == invocations' = [invocations EXCEPT ![i].pc = "done", ![i].statusCode = 500]

\* lines 229-238: the key, its name, the path of the working copy
PathOf(i) ==
    /\ invocations[i].pc = "start"
    /\ invocations' = [invocations EXCEPT
            ![i].local_path = LocalPath(PathName(UnquotePlus(invocations[i].key))),
            ![i].pc = "download"]
    /\ UNCHANGED <<tmpDir, sharedFrame>>

\* line 240: download_file writes the object to the path, or raises
DownloadOf(i) ==
    /\ invocations[i].pc = "download"
    /\ \/ /\ tmpDir' = WriteFile(invocations[i].local_path, invocations[i].key)
          /\ invocations' = [invocations EXCEPT ![i].pc = "extract_text"]
       \/ /\ Returns500(i)
          /\ UNCHANGED tmpDir
    /\ UNCHANGED sharedFrame

\* line 243, extract_from_pdf line 60: the extractor opens the file at the
\* path and reads what it holds; with no file there it raises
ExtractTextOf(i) ==
    /\ invocations[i].pc = "extract_text"
    /\ IF FilesAt(invocations[i].local_path) = {}
       THEN Returns500(i)
       ELSE \E f \in FilesAt(invocations[i].local_path) :
                invocations' = [invocations EXCEPT ![i].read = f.of, ![i].pc = "save"]
    /\ UNCHANGED <<tmpDir, sharedFrame>>

\* lines 243-247: the model, the corrector and save_invoice_data, none of
\* which touches /tmp; any of them may raise
ExtractAndSaveOf(i) ==
    /\ invocations[i].pc = "save"
    /\ \/ invocations' = [invocations EXCEPT ![i].saved = TRUE, ![i].pc = "exists"]
       \/ Returns500(i)
    /\ UNCHANGED <<tmpDir, sharedFrame>>

\* line 250: os.path.exists(local_path)
ExistsOf(i) ==
    /\ invocations[i].pc = "exists"
    /\ IF FilesAt(invocations[i].local_path) = {}
       THEN invocations' = [invocations EXCEPT ![i].pc = "done", ![i].statusCode = 200]
       ELSE invocations' = [invocations EXCEPT ![i].pc = "remove"]
    /\ UNCHANGED <<tmpDir, sharedFrame>>

\* line 251: os.remove(local_path) removes whatever file is at the path;
\* with no file there it raises FileNotFoundError
RemoveOf(i) ==
    /\ invocations[i].pc = "remove"
    /\ IF FilesAt(invocations[i].local_path) = {}
       THEN Returns500(i) /\ UNCHANGED tmpDir
       ELSE /\ tmpDir' = RemoveFile(invocations[i].local_path)
            /\ invocations' = [invocations EXCEPT ![i].pc = "done", ![i].statusCode = 200]
    /\ UNCHANGED sharedFrame

NextShared ==
    \E i \in Invokers :
        \/ PathOf(i)
        \/ DownloadOf(i)
        \/ ExtractTextOf(i)
        \/ ExtractAndSaveOf(i)
        \/ ExistsOf(i)
        \/ RemoveOf(i)

SpecShared == InitShared /\ [][NextShared]_vars

\* the calls that hold a working copy: the download is done, the file is
\* not yet removed by the call itself
HoldsCopy(i) == invocations[i].pc \in {"extract_text", "save", "exists", "remove"}

\* C21: of two calls running side by side on different objects, each reads
\* the text of the object it downloaded itself, and while a call holds its
\* working copy the file at its path is the copy of its own object: the
\* other call has neither removed nor replaced it, also when the two keys
\* have the same name.
C21_OwnWorkingCopy ==
    \A i \in Invokers :
        /\ invocations[i].read # <<>> => invocations[i].read = invocations[i].key
        /\ HoldsCopy(i) =>
                FilesAt(invocations[i].local_path)
                    = {[path |-> invocations[i].local_path, of |-> invocations[i].key]}

\* the JSON object a body of the messages shape carries as its text
CarriedObject(response_body) ==
    JsonLoads(DictGet(DictGet(response_body.v, K("content")).v[1].v, K("text")).v)
CarriesObject(response_body) ==
    /\ FirstHasText(response_body, K("content"), K("text"))
    /\ CarriedObject(response_body).st = "ok"
    /\ CarriedObject(response_body).val.t = "dict"

\* C22: under the default model id, when the response body has the shape
\* {content: [{text: <a JSON object>}]}, extract_invoice_data returns a
\* record in which every canonical field of that object has the object's
\* value.
C22_ContentAnswerReturned ==
    (/\ recovery # Idle
     /\ clientConfig.model_id = DefaultModelId
     /\ CarriesObject(responseBody)) =>
        /\ recovery.st = "return"
        /\ \A f \in CanonicalFields :
            DictHas(CarriedObject(responseBody).val.v, K(f)) =>
                DictGet(recovery.val.v, K(f)) = DictGet(CarriedObject(responseBody).val.v, K(f))

\* C23: under the default model id, when the response body holds no text
\* of the model (its content is empty), extract_invoice_data raises a
\* ValueError and returns no record.
C23_EmptyContentRaises ==
    (/\ recovery # Idle
     /\ clientConfig.model_id = DefaultModelId
     /\ responseBody = ContentBody(<<>>)) =>
        recovery = Raise("ValueError")

\* the steps of process_s3_event in the order of its lines, the step in
\* which each outside operation is called, and the stages that can fail in
\* each step
StepOrder == <<"start", "download", "extract_text", "invoke", "fix", "save", "cleanup", "done">>
Position(step) == CHOOSE n \in DOMAIN StepOrder : StepOrder[n] = step
StepOf ==
    [download_file |-> "download", extract_text |-> "extract_text", invoke_model |-> "invoke",
     put_item |-> "save", remove |-> "cleanup"]
StagesOf ==
    [start |-> {"event"}, download |-> {"download"}, extract_text |-> {"text_extraction"},
     invoke |-> {"model_invocation", "recovery"}, fix |-> {"correction"}, save |-> {"save"},
     cleanup |-> {"cleanup"}]

\* C24: the stages run in the order download, text extraction, model
\* invocation with recovery and normalisation, supplier correction, save:
\* a step is taken only while no stage has failed, it calls only the
\* operation of its own stage, and it either succeeds and hands over to the
\* next stage or fails and ends the call; after a failure before save,
\* nothing was written.
C24_StagesInOrder ==
    /\ [](failed \notin {"none", "save", "cleanup"} => calls["put_item"] = 0 /\ invoices = {})
    /\ [][/\ failed = "none"
          /\ \A operation \in Operations : calls'[operation] # calls[operation] => pc = StepOf[operation]
          /\ IF failed' = "none"
             THEN Position(pc') = Position(pc) + 1
             ELSE /\ failed' \in StagesOf[pc]
                  /\ pc' \in {"done", "raised"}]_vars

C24_Witness ==
    /\ pc = "done"
    /\ failed = "none"
    /\ \A operation \in Operations : calls[operation] = 1
    /\ invoices # {}

\* process_s3_event is straight-line code: a statement that has started
\* returns or raises, so a call that can take a step takes one
SpecPipelineFair == SpecPipeline /\ WF_vars(NextPipeline)

\* C25: in one call of process_s3_event the download, the text
\* extraction, the model invocation and the write to the table are each
\* called at most once, whatever failed, and the call comes to return the
\* success or the failure payload.
C25_OnceAndReturns ==
    /\ [](\A operation \in {"download_file", "extract_text", "invoke_model", "put_item"} :
            calls[operation] <= 1)
    /\ <>(pc = "done" /\ response.statusCode \in {200, 500})

\* the model was invoked, it failed, and the call returned
C25_Witness ==
    /\ pc = "done"
    /\ failed = "model_invocation"
    /\ response.statusCode = 500
    /\ calls["invoke_model"] = 1
    /\ calls["put_item"] = 0

\* C26: when process_s3_event has returned, the table holds a record of
\* the document exactly if the payload is the success payload: a call
\* that returned statusCode 500 wrote nothing, whichever step failed.
C26_SavedIffSuccess ==
    pc = "done" => (response.statusCode = 200 <=> invoices # {})

\* download_file was called and did not raise
Downloaded == calls["download_file"] > 0 /\ failed # "download"

\* C30: when process_s3_event has returned after the download succeeded,
\* with the success payload or with the failure payload, the working copy
\* of the document is no longer in /tmp.
C30_WorkingCopyRemoved ==
    (pc = "done" /\ Downloaded) => localPath \notin tmpFiles

\* the keys of the input that are aliases of field f, the first alias of f
\* in table order that one of them is, and the keys that are this alias
AliasKeys(f) ==
    {i \in DOMAIN normIn : \E n \in DOMAIN FieldMappings[f][2] :
        LowerAtom(normIn[i][1]) = LowerAtom(K(FieldMappings[f][2][n]))}
FirstAliasIn(f) ==
    Min({n \in DOMAIN FieldMappings[f][2] :
            \E i \in DOMAIN normIn : LowerAtom(normIn[i][1]) = LowerAtom(K(FieldMappings[f][2][n]))})
FirstAliasKeys(f) ==
    {i \in DOMAIN normIn : LowerAtom(normIn[i][1]) = LowerAtom(K(FieldMappings[f][2][FirstAliasIn(f)]))}

\* C27 as stated: when several keys of the input are aliases of one
\* canonical field, the field has the value of the alias that is first in
\* table order, whatever the order and the letter case of the keys: it is
\* the value of every key of the input that is this alias.
C27_FirstAliasAnyOrder ==
    normPc # "new" =>
        \A f \in DOMAIN FieldMappings :
            Cardinality(AliasKeys(f)) > 1 =>
                \A i \in FirstAliasKeys(f) : DictGet(normOut, K(FieldMappings[f][1])) = normIn[i][2]

\* C27 as amended: the field has the value of the alias that is first in
\* table order; when several keys of the input are this alias in different
\* letter case, it has the value of the last of them in the input.
C27_FirstAliasLastKey ==
    normPc # "new" =>
        \A f \in DOMAIN FieldMappings :
            Cardinality(AliasKeys(f)) > 1 =>
                DictGet(normOut, K(FieldMappings[f][1])) = normIn[Max(FirstAliasKeys(f))][2]

\* two aliases of one field, the later of the table first in the input and
\* in upper case: the field has the value of the earlier of the table
C27_Witness ==
    /\ normPc = "once"
    /\ normIn = << <<Key("supplier", "u"), PyStr(<<Word("orange", "u")>>)>>,
                   <<Key("fournisseur", "l"), PyStr(<<Word("acme", "u")>>)>> >>
    /\ DictGet(normOut, K("fournisseur")) = PyStr(<<Word("acme", "u")>>)

\* C28: the corrector returns the record as it was when the supplier is
\* null, empty, or a text that contains no known client; when the supplier
\* contains a known client it returns the record with the same keys in the
\* same order and every field other than the supplier as it was, whatever
\* the filename.
C28_OnlySupplierChanged ==
    fixOut # Idle =>
        /\ (~Truthy(SupplierIn) \/ (SupplierIn.t = "str" /\ ~HoldsKnownClient)) =>
                fixOut = Return(PyDict(fixData))
        /\ HoldsKnownClient =>
                /\ fixOut.st = "return"
                /\ fixOut.val.t = "dict"
                /\ Len(fixOut.val.v) = Len(fixData)
                /\ \A i \in DOMAIN fixData :
                    /\ fixOut.val.v[i][1] = fixData[i][1]
                    /\ fixData[i][1] # K("fournisseur") => fixOut.val.v[i] = fixData[i]

\* the corrector fired on a record whose supplier is the second field,
\* with a filename that names a supplier
C28_Witness ==
    /\ fixOut # Idle
    /\ HoldsKnownClient
    /\ SuppliersInFilename # {}
    /\ fixData[2][1] = K("fournisseur")
    /\ fixOut.val.v[2][2] # fixData[2][2]
    /\ fixOut.val.v[1] = fixData[1]

(***************************************************************************)
(* SpecProvision: DynamoDBClient objects constructed side by side, each    *)
(* running _ensure_table_exists against the one table of the account       *)
(***************************************************************************)
MaxClients == 2
StoreClients == 1 .. MaxClients

\* error codes of a ClientError other than the two the table's state
\* decides (ResourceNotFoundException, ResourceInUseException)
OtherErrors == {"AccessDeniedException", "ThrottlingException"}

NewClient == [pc |-> "describe", error |-> "none", raised_by |-> "none", tried_create |-> FALSE]

InitProvision ==
    /\ RecoverOff
    /\ NormOff
    /\ FixOff
    /\ DynamoOff
    /\ PipelineOff
    /\ StoreOff
    /\ BedrockOff
    /\ SharedOff
    /\ clients = [c \in StoreClients |-> NewClient]
    /\ tableStatus \in {"absent", "active"}
    /\ created = 0

provisionFrame == <<recoverVars, normVars, fixVars, dynamoVars, pipelineVars, storeVars, bedrockVars,
                    sharedVars>>

\* the constructor raises what the call raised
RaisesFrom(c, call, code) ==
    clients' = [clients EXCEPT ![c].pc = "failed", ![c].error = code, ![c].raised_by = call]

\* lines 41-52: describe_table returns when the table is there; when it is
\* not, the ResourceNotFoundException leads to _create_table; any other
\* ClientError is raised again
DescribeTable(c) ==
    /\ clients[c].pc = "describe"
    /\ \/ /\ tableStatus # "absent"
          /\ clients' = [clients EXCEPT ![c].pc = "ready"]
       \/ /\ tableStatus = "absent"
          /\ clients' = [clients EXCEPT ![c].pc = "create"]
       \/ \E code \in OtherErrors : RaisesFrom(c, "describe_table", code)
    /\ UNCHANGED <<tableStatus, created, provisionFrame>>

\* lines 58-139, 145-147: create_table starts the creation of a table that
\* is not there and is refused with ResourceInUseException for one that
\* is; a ClientError is logged and raised again
CreateTable(c) ==
    /\ clients[c].pc = "create"
    /\ \/ /\ tableStatus = "absent"
          /\ tableStatus' = "creating"
          /\ created' = created + 1
          /\ clients' = [clients EXCEPT ![c].pc = "wait", ![c].tried_create = TRUE]
       \/ /\ tableStatus # "absent"
          /\ clients' = [clients EXCEPT ![c].pc = "failed", ![c].error = "ResourceInUseException",
                                        ![c].raised_by = "create_table", ![c].tried_create = TRUE]
          /\ UNCHANGED <<tableStatus, created>>
       \/ /\ \E code \in OtherErrors :
                clients' = [clients EXCEPT ![c].pc = "failed", ![c].error = code,
                                           ![c].raised_by = "create_table", ![c].tried_create = TRUE]
          /\ UNCHANGED <<tableStatus, created>>
    /\ UNCHANGED provisionFrame

\* DynamoDB finishes the creation
TableBecomesActive ==
    /\ tableStatus = "creating"
    /\ tableStatus' = "active"
    /\ UNCHANGED <<clients, created, provisionFrame>>

\* lines 141-143: the waiter returns once the table is active; while the
\* table is still being created it may give up with a WaiterError, which
\* the except clause does not catch and the constructor raises
WaitTableExists(c) ==
    /\ clients[c].pc = "wait"
    /\ IF tableStatus = "active"
       THEN clients' = [clients EXCEPT ![c].pc = "ready"]
       ELSE RaisesFrom(c, "wait", "WaiterError")
    /\ UNCHANGED <<tableStatus, created, provisionFrame>>

NextProvision ==
    \/ TableBecomesActive
    \/ \E c \in StoreClients :
        \/ DescribeTable(c)
        \/ CreateTable(c)
        \/ WaitTableExists(c)

SpecProvision == InitProvision /\ [][NextProvision]_vars

\* every client has finished its constructor
AllFinished == \A c \in StoreClients : clients[c].pc \in {"ready", "failed"}
\* the table was not there when the clients started (no table is deleted)
WasAbsent == tableStatus = "absent" \/ created > 0
\* no call was refused for a reason of its own (access, throttling) and no
\* waiter gave up
NoOtherError == \A c \in StoreClients : clients[c].error \notin OtherErrors \cup {"WaiterError"}

\* C29: when the clients start while the table is not there, the table
\* is created exactly once and every client finishes its initialisation
\* successfully; and a client whose describe_table fails with an error
\* other than not-found raises that error and has not called create_table.
C29_CreatedOnceAllReady ==
    /\ (AllFinished /\ WasAbsent /\ NoOtherError) =>
            /\ created = 1
            /\ \A c \in StoreClients : clients[c].pc = "ready"
    /\ \A c \in StoreClients :
            clients[c].raised_by = "describe_table" =>
                /\ clients[c].pc = "failed"
                /\ clients[c].error \in OtherErrors
                /\ ~clients[c].tried_create


=============================================================================
